---- MODULE Spec2Model ----
(***************************************************************************)
(* Model of the dance recommender pipeline: video feature extraction,      *)
(* emotion inference, the classical (deterministic) recommender and the    *)
(* quantum-inspired (amplitude) recommender, and the analyze endpoint.     *)
(*                                                                         *)
(* Real numbers are exact rationals <<n, d>> (d > 0, lowest terms).        *)
(* Square roots, complex exponentials and logarithms are kept symbolic:    *)
(*   - a complex number is held in polar form [magsq, phase], magsq being  *)
(*     the squared modulus and phase the argument in units of pi (mod 2);  *)
(*   - a standard deviation is held as the sequence it is taken of;        *)
(*   - an entropy is held as the bag of the probabilities it is taken of.  *)
(***************************************************************************)
EXTENDS Integers, Sequences, FiniteSets, Bags, TLC

(***************************************************************************)
(* Bounds of the model                                                     *)
(***************************************************************************)
\* feature values are the multiples k * 3/10, k in 0..MaxFeat
MaxFeat == 4
\* number of sample frames handed to the face check
MaxFrames == 1
\* seeds of the phase generator are 0..MaxSeed
MaxSeed == 1
\* probabilities of directly supplied distributions are k/Grid, k in 0..Grid
Grid == 2
\* analyze requests made one after the other
MaxRequests == 2
\* frames a video holds at most
MaxVideoFrames == 51
\* motion samples collected from a video at most
MaxSamples == 2
\* phases drawn in finite precision are k eighths of a turn, k in 0..MaxPhase
MaxPhase == 2
\* probabilities of the dicts evaluated in finite precision are k/3, k in 1..MaxThirds
MaxThirds == 3

(***************************************************************************)
(* Rational arithmetic                                                     *)
(***************************************************************************)
RECURSIVE GCD(_, _)
GCD(a, b) == IF b = 0 THEN a ELSE GCD(b, a % b)

Abs(x) == IF x < 0 THEN -x ELSE x

R(n, d) == LET g == GCD(Abs(n), d) IN <<n \div g, d \div g>>

Zero == <<0, 1>>
One == <<1, 1>>

RAdd(a, b) ==
    LET g == GCD(a[2], b[2])
    IN R(a[1] * (b[2] \div g) + b[1] * (a[2] \div g), (a[2] \div g) * b[2])

RNeg(a) == <<-a[1], a[2]>>

RSub(a, b) == RAdd(a, RNeg(b))

RMul(a, b) ==
    LET g1 == GCD(Abs(a[1]), b[2])
        g2 == GCD(Abs(b[1]), a[2])
    IN R((a[1] \div g1) * (b[1] \div g2), (a[2] \div g2) * (b[2] \div g1))

\* a / b for b # 0
RDiv(a, b) ==
    IF b[1] > 0 THEN RMul(a, <<b[2], b[1]>>) ELSE RMul(a, <<-b[2], -b[1]>>)

RLt(a, b) ==
    LET g == GCD(a[2], b[2])
    IN a[1] * (b[2] \div g) < b[1] * (a[2] \div g)

RLe(a, b) == ~RLt(b, a)

RMin(a, b) == IF RLt(b, a) THEN b ELSE a

RMax(a, b) == IF RLt(a, b) THEN b ELSE a

RAbs(a) == <<Abs(a[1]), a[2]>>

\* sum of a sequence of rationals, left to right as Python's sum()
RECURSIVE RSum(_)
RSum(s) == IF s = <<>> THEN Zero ELSE RAdd(RSum(SubSeq(s, 1, Len(s) - 1)), s[Len(s)])

(***************************************************************************)
(* Dictionaries: a Python dict is the sequence of its <<key, value>> items *)
(* in insertion order.                                                     *)
(***************************************************************************)
\* the sequence s with every element evaluated
Tuple(s) == SubSeq(s, 1, Len(s))

Keys(d) == Tuple([i \in 1..Len(d) |-> d[i][1]])

Values(d) == Tuple([i \in 1..Len(d) |-> d[i][2]])

HasKey(d, k) == \E i \in 1..Len(d) : d[i][1] = k

\* d.get(k, default)
Get(d, k, default) ==
    IF HasKey(d, k) THEN d[CHOOSE i \in 1..Len(d) : d[i][1] = k][2] ELSE default

\* {k: v/total for k, v in d.items()}
DivideValues(d, total) == Tuple([i \in 1..Len(d) |-> <<d[i][1], RDiv(d[i][2], total)>>])

Range(s) == {s[i] : i \in 1..Len(s)}

(***************************************************************************)
(* config.py                                                               *)
(***************************************************************************)
FACIAL_EMOTIONS == <<"happy", "sad", "angry", "surprise", "neutral", "fear", "disgust">>

MOVEMENT_EMOTIONS == <<"energetic", "calm", "aggressive", "graceful", "playful", "melancholic">>

DANCE_STYLES == <<"Ballet", "Hip-Hop", "Contemporary", "Jazz", "Salsa",
                  "Breakdance", "Ballroom", "Tap", "Lyrical", "Freestyle">>

QUANTUM_DIMENSIONS == 16

\* ENTANGLEMENT_STRENGTH = 0.7
ENTANGLEMENT_STRENGTH == R(7, 10)

\* SUPERPOSITION_THRESHOLD = 0.1
SUPERPOSITION_THRESHOLD == R(1, 10)

TOP_K_RECOMMENDATIONS == 5

FRAME_SAMPLE_RATE == 5

(***************************************************************************)
(* emotion_analyzer.py                                                     *)
(***************************************************************************)
\* {emotion: 1.0/len(self.facial_emotions) for emotion in self.facial_emotions}
UniformFacial ==
    Tuple([i \in 1..Len(FACIAL_EMOTIONS) |-> <<FACIAL_EMOTIONS[i], R(1, Len(FACIAL_EMOTIONS))>>])

\* the fixed distribution emitted when a face was detected
FaceDetectedEmotions ==
    << <<"happy", R(30, 100)>>, <<"neutral", R(30, 100)>>, <<"surprise", R(20, 100)>>,
       <<"sad", R(10, 100)>>, <<"angry", R(5, 100)>>, <<"fear", R(3, 100)>>,
       <<"disgust", R(2, 100)>> >>

\* mutant: the loop has no break and examines every frame
FacesExamined_NoBreak(frames, i) == Len(frames)

\* detectMultiScale calls of the loop over frames from frame i on: the loop
\* breaks at the first frame with a face
RECURSIVE FacesExamined(_, _)
FacesExamined(frames, i) ==
    IF i > Len(frames) THEN Len(frames)
    ELSE IF frames[i] THEN i
    ELSE FacesExamined(frames, i + 1)

\* A frame is modelled by what the cascade reports on it: TRUE when
\* detectMultiScale returns at least one face.
analyze_facial_presence(frames) ==
    IF frames = <<>> THEN UniformFacial
    ELSE LET face_detected == \E i \in 1..Len(frames) : frames[i]
         IN IF face_detected THEN FaceDetectedEmotions ELSE UniformFacial

\* mutant: avg_velocity >= 0.3 and velocity_variance <= 0.3
Graceful_Inclusive(avg_velocity, velocity_variance) ==
    IF RLe(R(3, 10), avg_velocity) /\ RLe(velocity_variance, R(3, 10))
    THEN R(7, 10) ELSE R(3, 10)

\* emotions['graceful']
Graceful(avg_velocity, velocity_variance) ==
    IF RLt(R(3, 10), avg_velocity) /\ RLt(velocity_variance, R(3, 10))
    THEN R(7, 10) ELSE R(3, 10)

\* the six movement values before normalisation, in insertion order
MovementRaw(features) ==
    LET avg_velocity == features.avg_velocity
        velocity_variance == features.velocity_variance
        avg_acceleration == features.avg_acceleration
        pose_diversity == features.pose_diversity
        Two == R(2, 1)
        Three == R(3, 1)
    IN << <<"energetic",
            RMin(One, RDiv(RAdd(RMul(avg_velocity, Two), avg_acceleration), Two))>>,
          <<"calm",
            RMax(Zero, RSub(One, RDiv(RAdd(avg_velocity, velocity_variance), Two)))>>,
          <<"aggressive",
            RMin(One, RDiv(RAdd(RMul(avg_acceleration, Two), velocity_variance), Two))>>,
          <<"graceful", Graceful(avg_velocity, velocity_variance)>>,
          <<"playful",
            RMin(One, RDiv(RAdd(RMul(pose_diversity, Three), avg_velocity), Two))>>,
          <<"melancholic",
            RMax(Zero, RSub(One, RDiv(RAdd(avg_velocity, pose_diversity), Two)))>> >>

\* mutant: the normalisation is left out
Normalize_NoDivide(d) == d

\* total = sum(d.values()); if total > 0: d = {k: v/total ...}
Normalize(d) ==
    LET total == RSum(Values(d))
    IN IF RLt(Zero, total) THEN DivideValues(d, total) ELSE d

analyze_movement_emotions(features) == Normalize(MovementRaw(features))

FacialWeight == R(4, 10)

MovementWeight == R(6, 10)

\* combined[emotion] for each emotion of all_emotions, in the iteration order
\* of the set (an arbitrary order of the keys, passed as `order`)
CombinedRaw(facial, movement, order) ==
    Tuple([i \in 1..Len(order) |->
        <<order[i], RAdd(RMul(Get(facial, order[i], Zero), FacialWeight),
                         RMul(Get(movement, order[i], Zero), MovementWeight))>>])

combine_emotions(facial, movement, order) == Normalize(CombinedRaw(facial, movement, order))

Reverse(s) == Tuple([i \in 1..Len(s) |-> s[Len(s) + 1 - i]])

\* set(list(facial.keys()) + list(movement.keys())) iterates in an order that
\* the language leaves open; the model draws it from these orders of the keys.
SetOrders(facial, movement) ==
    LET ks == Keys(facial) \o Keys(movement)
    IN {ks, Reverse(ks)}

(***************************************************************************)
(* classical_recommender.py                                                *)
(***************************************************************************)
\* the knowledge base: emotion -> {dance: affinity}
emotion_dance_matrix ==
    << <<"happy", << <<"Hip-Hop", R(8, 10)>>, <<"Jazz", R(7, 10)>>, <<"Salsa", R(9, 10)>>, <<"Tap", R(6, 10)>> >> >>,
       <<"sad", << <<"Contemporary", R(9, 10)>>, <<"Lyrical", R(8, 10)>>, <<"Ballet", R(6, 10)>> >> >>,
       <<"angry", << <<"Breakdance", R(8, 10)>>, <<"Hip-Hop", R(7, 10)>>, <<"Freestyle", R(6, 10)>> >> >>,
       <<"energetic", << <<"Hip-Hop", R(9, 10)>>, <<"Breakdance", R(8, 10)>>, <<"Salsa", R(7, 10)>>, <<"Tap", R(6, 10)>> >> >>,
       <<"calm", << <<"Ballet", R(9, 10)>>, <<"Contemporary", R(7, 10)>>, <<"Lyrical", R(8, 10)>> >> >>,
       <<"graceful", << <<"Ballet", R(10, 10)>>, <<"Ballroom", R(8, 10)>>, <<"Contemporary", R(7, 10)>> >> >>,
       <<"playful", << <<"Jazz", R(8, 10)>>, <<"Tap", R(7, 10)>>, <<"Freestyle", R(6, 10)>> >> >>,
       <<"aggressive", << <<"Breakdance", R(9, 10)>>, <<"Hip-Hop", R(7, 10)>> >> >>,
       <<"melancholic", << <<"Contemporary", R(9, 10)>>, <<"Lyrical", R(8, 10)>>, <<"Ballet", R(6, 10)>> >> >>,
       <<"surprise", << <<"Freestyle", R(7, 10)>>, <<"Jazz", R(6, 10)>> >> >>,
       <<"neutral", << <<"Freestyle", R(5, 10)>>, <<"Contemporary", R(5, 10)>> >> >>,
       <<"fear", << <<"Contemporary", R(6, 10)>>, <<"Freestyle", R(5, 10)>> >> >>,
       <<"disgust", << <<"Freestyle", R(5, 10)>> >> >> >>

\* mutant: sorted(items, key=lambda x: x[1]) without reverse=True
RECURSIVE SortedAsc(_)
SortedAsc(items) ==
    IF items = <<>> THEN <<>>
    ELSE LET n == Len(items)
             x == items[n]
             front == SortedAsc(SubSeq(items, 1, n - 1))
             k == Cardinality({i \in 1..Len(front) : RLe(front[i][2], x[2])})
         IN SubSeq(front, 1, k) \o <<x>> \o SubSeq(front, k + 1, Len(front))

\* sorted(items, key=lambda x: x[1], reverse=True): a stable sort, so items of
\* equal value keep their order
RECURSIVE SortedDesc(_)
SortedDesc(items) ==
    IF items = <<>> THEN <<>>
    ELSE LET n == Len(items)
             x == items[n]
             front == SortedDesc(SubSeq(items, 1, n - 1))
             \* x goes after every item whose value is >= its own
             k == Cardinality({i \in 1..Len(front) : RLe(x[2], front[i][2])})
         IN SubSeq(front, 1, k) \o <<x>> \o SubSeq(front, k + 1, Len(front))

\* mutant: scores[dance] = intensity * weight instead of +=, so the last
\* emotion that has an entry for the dance decides
WeightedSum_LastWins(table, emotions, dance) ==
    LET has == {i \in 1..Len(emotions) :
                  /\ HasKey(table, emotions[i][1])
                  /\ HasKey(Get(table, emotions[i][1], <<>>), dance)}
        last == CHOOSE i \in has : \A j \in has : j <= i
    IN IF has = {} THEN Zero
       ELSE RMul(emotions[last][2], Get(Get(table, emotions[last][1], <<>>), dance, Zero))

\* mutant: scores[dance] += weight, the affinity without the intensity
WeightedSum_Unweighted(table, emotions, dance) ==
    RSum(Tuple([i \in 1..Len(emotions) |->
            IF HasKey(table, emotions[i][1])
               /\ HasKey(Get(table, emotions[i][1], <<>>), dance)
               /\ emotions[i][2] # Zero
            THEN Get(Get(table, emotions[i][1], <<>>), dance, Zero)
            ELSE Zero]))

\* mutant: table.get(emotion, {}).get(dance, 1.0), a missing row or entry
\* counting as weight 1
WeightedSum_DefaultOne(table, emotions, dance) ==
    RSum(Tuple([i \in 1..Len(emotions) |->
            RMul(emotions[i][2], Get(Get(table, emotions[i][1], <<>>), dance, One))]))

\* sum of intensity * table[emotion][dance] over the emotions of the
\* distribution that have a row holding the dance
WeightedSum(table, emotions, dance) ==
    RSum(Tuple([i \in 1..Len(emotions) |->
            IF HasKey(table, emotions[i][1])
               /\ HasKey(Get(table, emotions[i][1], <<>>), dance)
            THEN RMul(emotions[i][2], Get(Get(table, emotions[i][1], <<>>), dance, Zero))
            ELSE Zero]))

\* dance_scores after the accumulation loop, in DANCE_STYLES order
dance_scores(emotions) ==
    Tuple([i \in 1..Len(DANCE_STYLES) |->
        <<DANCE_STYLES[i], WeightedSum(emotion_dance_matrix, emotions, DANCE_STYLES[i])>>])

\* (emotion, intensity * weight) for the emotions that have an entry for the dance
Contributions(table, emotions, dance) ==
    SelectSeq(Tuple([i \in 1..Len(emotions) |->
                <<emotions[i][1],
                  RMul(emotions[i][2], Get(Get(table, emotions[i][1], <<>>), dance, Zero)),
                  HasKey(table, emotions[i][1])
                    /\ HasKey(Get(table, emotions[i][1], <<>>), dance)>>]),
              LAMBDA c : c[3])

generate_reasoning(dance_style, emotions) ==
    LET contributions == SortedDesc(Contributions(emotion_dance_matrix, emotions, dance_style))
    IN IF contributions # <<>>
       THEN [text |-> "Strong emotion detected, which aligns well with",
             top_emotion |-> contributions[1][1], dance_style |-> dance_style]
       ELSE [text |-> "General compatibility with",
             top_emotion |-> "", dance_style |-> dance_style]

\* a diversity score is either the exact number 0.0 or np.std(scores), the
\* population standard deviation of the scores, which is kept symbolic
calculate_diversity(recommendations) ==
    IF Len(recommendations) < 2 THEN [exact |-> <<Zero>>, std_of |-> <<>>]
    ELSE [exact |-> <<>>,
          std_of |-> Tuple([i \in 1..Len(recommendations) |-> recommendations[i].score])]

\* mutant: sorted_dances[:self.top_k + 1]
TopK_OneMore(sorted) == SubSeq(sorted, 1, IF Len(sorted) < TOP_K_RECOMMENDATIONS + 1
                                          THEN Len(sorted) ELSE TOP_K_RECOMMENDATIONS + 1)

\* sorted_dances[:self.top_k]
TopK(sorted) == SubSeq(sorted, 1, IF Len(sorted) < TOP_K_RECOMMENDATIONS
                                  THEN Len(sorted) ELSE TOP_K_RECOMMENDATIONS)

ClassicalKept(sorted_dances) == SelectSeq(TopK(sorted_dances), LAMBDA x : RLt(Zero, x[2]))

ClassicalRecommendations(emotions) ==
    LET kept == ClassicalKept(SortedDesc(dance_scores(emotions)))
    IN Tuple([i \in 1..Len(kept) |->
          [dance_style |-> kept[i][1],
           score |-> kept[i][2],
           confidence |-> RMin(One, kept[i][2]),
           reasoning |-> generate_reasoning(kept[i][1], emotions)]])

classical_recommend(emotions) ==
    LET recommendations == ClassicalRecommendations(emotions)
    IN [recommendations |-> recommendations,
        method |-> "classical",
        diversity_score |-> calculate_diversity(recommendations)]

(***************************************************************************)
(* Complex numbers in polar form                                           *)
(***************************************************************************)
\* a phase (in units of pi) reduced to [0, 2)
Mod2(q) == R(q[1] % (2 * q[2]), q[2])

CZero == [magsq |-> Zero, phase |-> Zero]

COne == [magsq |-> One, phase |-> Zero]

Polar(magsq, phase) ==
    IF magsq = Zero THEN CZero ELSE [magsq |-> magsq, phase |-> Mod2(phase)]

\* np.exp(1j * theta), theta in units of pi
CExpI(theta) == Polar(One, theta)

CMul(a, b) ==
    IF a = CZero \/ b = CZero THEN CZero
    ELSE Polar(RMul(a.magsq, b.magsq), RAdd(a.phase, b.phase))

CConj(a) == Polar(a.magsq, RNeg(a.phase))

\* a + b; every sum the engine forms has at most one non-zero term per
\* component, a sum of two non-zero terms is left unevaluated
CAdd(a, b) ==
    IF a = CZero THEN b
    ELSE IF b = CZero THEN a
    ELSE [sum_of |-> <<a, b>>]

\* np.sqrt(x) * c for a real x >= 0
CTimesSqrt(x, c) == Polar(RMul(x, c.magsq), c.phase)

\* c / np.sqrt(x) for a real x > 0
CDivSqrt(c, x) == Polar(RDiv(c.magsq, x), c.phase)

\* abs(c) ** 2
AbsSq(c) == c.magsq

Dims == 1..QUANTUM_DIMENSIONS

ZeroVector == Tuple([j \in Dims |-> CZero])

\* np.linalg.norm(state) ** 2
NormSq(state) == RSum(Tuple([j \in Dims |-> AbsSq(state[j])]))

\* np.dot(u, v)
RECURSIVE DotUpTo(_, _, _)
DotUpTo(u, v, n) ==
    IF n = 0 THEN CZero ELSE CAdd(DotUpTo(u, v, n - 1), CMul(u[n], v[n]))

Dot(u, v) == DotUpTo(u, v, QUANTUM_DIMENSIONS)

(***************************************************************************)
(* quantum_recommender.py                                                  *)
(***************************************************************************)
\* position of x in the sequence s (1-based), 0 when absent
IndexOf(s, x) == IF x \in Range(s) THEN CHOOSE i \in 1..Len(s) : s[i] = x ELSE 0

\* the one-hot vector of enumerate index i (0-based); all-zero when i >= dimensions
BasisVector(i) ==
    Tuple([j \in Dims |-> IF i < QUANTUM_DIMENSIONS /\ j = i + 1 THEN COne ELSE CZero])

AllEmotions == FACIAL_EMOTIONS \o MOVEMENT_EMOTIONS

InEmotionBasis(emotion) == emotion \in Range(AllEmotions)

emotion_basis(emotion) == BasisVector(IndexOf(AllEmotions, emotion) - 1)

\* mutant: the styles are numbered from 1, vector[i + 1] = 1.0
dance_basis_FromOne(dance) == BasisVector(IndexOf(DANCE_STYLES, dance))

dance_basis(dance) == BasisVector(IndexOf(DANCE_STYLES, dance) - 1)

\* the correlation table: emotion -> {dance: correlation}
entanglement_matrix ==
    << <<"happy", << <<"Hip-Hop", R(90, 100)>>, <<"Jazz", R(80, 100)>>, <<"Salsa", R(95, 100)>>, <<"Tap", R(70, 100)>> >> >>,
       <<"sad", << <<"Contemporary", R(95, 100)>>, <<"Lyrical", R(90, 100)>>, <<"Ballet", R(70, 100)>> >> >>,
       <<"angry", << <<"Breakdance", R(90, 100)>>, <<"Hip-Hop", R(80, 100)>>, <<"Freestyle", R(70, 100)>> >> >>,
       <<"energetic", << <<"Hip-Hop", R(95, 100)>>, <<"Breakdance", R(90, 100)>>, <<"Salsa", R(85, 100)>> >> >>,
       <<"calm", << <<"Ballet", R(95, 100)>>, <<"Contemporary", R(80, 100)>>, <<"Lyrical", R(90, 100)>> >> >>,
       <<"graceful", << <<"Ballet", R(100, 100)>>, <<"Ballroom", R(90, 100)>>, <<"Contemporary", R(80, 100)>> >> >>,
       <<"playful", << <<"Jazz", R(90, 100)>>, <<"Tap", R(85, 100)>>, <<"Freestyle", R(70, 100)>> >> >>,
       <<"aggressive", << <<"Breakdance", R(95, 100)>>, <<"Hip-Hop", R(80, 100)>> >> >>,
       <<"melancholic", << <<"Contemporary", R(95, 100)>>, <<"Lyrical", R(90, 100)>>, <<"Ballet", R(70, 100)>> >> >> >>

\* The phase source np.random.uniform(0, 2 * np.pi) is a generator with a
\* state: a draw returns a phase (in units of pi) fixed by the state, and
\* advances the state.  The model's generator has 16 states and 4 phases.
DrawPhase(rng) == R(rng \div 4, 2)

NextRng(rng) == (5 * rng + 3) % 16

VecAdd(u, v) == Tuple([j \in Dims |-> CAdd(u[j], v[j])])

VecScale(c, v) == Tuple([j \in Dims |-> CMul(c, v[j])])

\* the state vector and the generator after the first n items of the loop
RECURSIVE SuperpositionLoop(_, _, _)
SuperpositionLoop(emotions, rng, n) ==
    IF n = 0 THEN [state |-> ZeroVector, rng |-> rng]
    ELSE LET prev == SuperpositionLoop(emotions, rng, n - 1)
             emotion == emotions[n][1]
             probability == emotions[n][2]
         IN IF InEmotionBasis(emotion)
            THEN LET phase == DrawPhase(prev.rng)
                     complex_amplitude == CTimesSqrt(probability, CExpI(phase))
                 IN [state |-> VecAdd(prev.state,
                                      VecScale(complex_amplitude, emotion_basis(emotion))),
                     rng |-> NextRng(prev.rng)]
            ELSE prev

\* mutant: the state is returned without the division by its norm
NormalizeState_Skip(state) == state

\* norm = np.linalg.norm(state); if norm > 0: state = state / norm
NormalizeState(state) ==
    LET normsq == NormSq(state)
    IN IF RLt(Zero, normsq) THEN Tuple([j \in Dims |-> CDivSqrt(state[j], normsq)]) ELSE state

\* returns the state and the generator state left behind
create_superposition_state(emotions, rng) ==
    LET loop == SuperpositionLoop(emotions, rng, Len(emotions))
    IN [state |-> NormalizeState(loop.state), rng |-> loop.rng]

\* mutant: correlation * np.exp(1j * angle * intensity), a factor of modulus
\* correlation instead of 1
EntanglementFactor_Scaled(correlation, intensity) ==
    Polar(RMul(correlation, correlation),
          RMul(RMul(RMul(correlation, ENTANGLEMENT_STRENGTH), R(1, 2)), intensity))

\* np.exp(1j * angle * intensity), angle = correlation * strength * pi / 2
EntanglementFactor(correlation, intensity) ==
    CExpI(RMul(RMul(RMul(correlation, ENTANGLEMENT_STRENGTH), R(1, 2)), intensity))

\* entanglement_op[i, i] after the first n emotions of the inner loop
RECURSIVE DiagonalLoop(_, _, _)
DiagonalLoop(dance, emotions, n) ==
    IF n = 0 THEN COne
    ELSE LET prev == DiagonalLoop(dance, emotions, n - 1)
             emotion == emotions[n][1]
             intensity == emotions[n][2]
             row == Get(entanglement_matrix, emotion, <<>>)
         IN IF HasKey(entanglement_matrix, emotion) /\ HasKey(row, dance)
            THEN CMul(prev, EntanglementFactor(Get(row, dance, Zero), intensity))
            ELSE prev

\* the operator: np.eye(dimensions) with the diagonal entries of the
\* representable dance styles rotated
entanglement_op(emotions) ==
    Tuple([i \in Dims |-> Tuple([j \in Dims |->
        IF i # j THEN CZero
        ELSE IF i <= Len(DANCE_STYLES)
             THEN DiagonalLoop(DANCE_STYLES[i], emotions, Len(emotions))
             ELSE COne])])

\* entanglement_op @ quantum_state
apply_entanglement(quantum_state, emotions) ==
    LET op == entanglement_op(emotions)
    IN Tuple([i \in Dims |-> Dot(op[i], quantum_state)])

\* projection * (1 + boost) for one dance style
DanceWeight(dance, quantum_state, emotions) ==
    LET projection == AbsSq(Dot(Tuple([j \in Dims |-> CConj(dance_basis(dance)[j])]), quantum_state))
        boost == WeightedSum(entanglement_matrix, emotions, dance)
    IN RMul(projection, RAdd(One, boost))

\* dance_probabilities before normalisation, in DANCE_STYLES order
RawDanceProbabilities(quantum_state, emotions) ==
    LET n == IF Len(DANCE_STYLES) < QUANTUM_DIMENSIONS
             THEN Len(DANCE_STYLES) ELSE QUANTUM_DIMENSIONS
    IN Tuple([i \in 1..n |-> <<DANCE_STYLES[i], DanceWeight(DANCE_STYLES[i], quantum_state, emotions)>>])

\* mutant: the weights are used as they are, without the division by total
dance_probabilities_Raw(quantum_state, emotions) ==
    RawDanceProbabilities(quantum_state, emotions)

dance_probabilities(quantum_state, emotions) ==
    Normalize(RawDanceProbabilities(quantum_state, emotions))

\* f"{probability:.2f}" for 0 <= p: the nearest multiple of 1/100, found by
\* long division (two decimal digits, then rounding on the remainder)
Round2(p) ==
    LET whole == p[1] \div p[2]
        r0 == p[1] % p[2]
        d1 == (10 * r0) \div p[2]
        r1 == (10 * r0) % p[2]
        d2 == (10 * r1) \div p[2]
        r2 == (10 * r1) % p[2]
        up == IF 2 * r2 >= p[2] THEN 1 ELSE 0
    IN R(100 * whole + 10 * d1 + d2 + up, 100)

generate_quantum_reasoning(dance_style, emotions, probability) ==
    LET entangled_emotions ==
            SortedDesc(Contributions(entanglement_matrix, emotions, dance_style))
    IN IF entangled_emotions # <<>>
       THEN [text |-> "Quantum entanglement detected between",
             top_emotion |-> entangled_emotions[1][1], dance_style |-> dance_style,
             amplitude |-> Round2(probability)]
       ELSE [text |-> "Emerged from quantum superposition",
             top_emotion |-> "", dance_style |-> dance_style,
             amplitude |-> Round2(probability)]

\* mutant: the classical filter, probability > 0, instead of the threshold
QuantumKept_Positive(sorted_dances) ==
    SelectSeq(TopK(sorted_dances), LAMBDA x : RLt(Zero, x[2]))

\* the top K entries that pass probability > Config.SUPERPOSITION_THRESHOLD
QuantumKept(sorted_dances) ==
    SelectSeq(TopK(sorted_dances), LAMBDA x : RLt(SUPERPOSITION_THRESHOLD, x[2]))

\* the recommendations built from the normalised dance_probabilities
MeasuredRecommendations(probabilities, emotions) ==
    LET kept == QuantumKept(SortedDesc(probabilities))
    IN Tuple([i \in 1..Len(kept) |->
          [dance_style |-> kept[i][1],
           score |-> kept[i][2],
           confidence |-> kept[i][2],
           reasoning |-> generate_quantum_reasoning(kept[i][1], emotions, kept[i][2]),
           quantum_amplitude |-> kept[i][2]]])

quantum_measurement(quantum_state, emotions) ==
    MeasuredRecommendations(dance_probabilities(quantum_state, emotions), emotions)

\* calculate_entropy(probabilities): a symmetric function of the non-zero
\* probabilities, held as their bag
calculate_entropy(probabilities) ==
    LET positive == {i \in DOMAIN probabilities : RLt(Zero, probabilities[i])}
    IN [entropy_of |->
          [x \in {probabilities[i] : i \in positive} |->
              Cardinality({i \in positive : probabilities[i] = x})]]

\* cos(pi * delta) for the phase differences that DrawPhase yields, the
\* multiples of 1/2
CosPi(delta) ==
    LET d == Mod2(delta)
    IN IF d = Zero THEN 1 ELSE IF d = One THEN -1 ELSE 0

\* np.abs(np.sum(quantum_state)).  The square of the sum's modulus is
\*   sum_j |c_j|^2  +  2 * sum_{j<k} sqrt(|c_j|^2 * |c_k|^2) * cos(phase_j - phase_k),
\* held as the first sum and, for each product under the root, the net sum
\* of its cosines
Coherence(quantum_state) ==
    LET nonzero == {j \in Dims : quantum_state[j] # CZero}
        pairs == {p \in nonzero \X nonzero : p[1] < p[2]}
        product == [p \in pairs |->
                       RMul(quantum_state[p[1]].magsq, quantum_state[p[2]].magsq)]
        cosine == [p \in pairs |->
                      CosPi(RSub(quantum_state[p[1]].phase, quantum_state[p[2]].phase))]
        net == [x \in {product[p] : p \in pairs} |->
                   Cardinality({p \in pairs : product[p] = x /\ cosine[p] = 1})
                     - Cardinality({p \in pairs : product[p] = x /\ cosine[p] = -1})]
    IN [abs_of_sum |->
          [squares |-> NormSq(quantum_state),
           cross |-> [x \in {y \in DOMAIN net : net[y] # 0} |-> net[x]]]]

quantum_properties(quantum_state) ==
    [superposition_entropy |-> calculate_entropy(Tuple([j \in Dims |-> AbsSq(quantum_state[j])])),
     entanglement_strength |-> ENTANGLEMENT_STRENGTH,
     coherence |-> Coherence(quantum_state)]

\* QuantumRecommender.recommend as one call: the three steps in sequence on
\* the distribution and the generator state at entry
quantum_recommend(emotions, rng) ==
    LET quantum_state == create_superposition_state(emotions, rng).state
        entangled_state == apply_entanglement(quantum_state, emotions)
    IN [recommendations |-> quantum_measurement(entangled_state, emotions),
        method |-> "quantum",
        quantum_properties |-> quantum_properties(quantum_state)]

(***************************************************************************)
(* quantum_recommender.py in finite precision                              *)
(*  numpy evaluates every operation of recommend() in float64 and returns  *)
(*  the representable number nearest to the exact result.  This section   *)
(*  keeps that rounding, on a coarser grid: a number is the integer count  *)
(*  of steps of 1 / Ulps it holds, a complex number the pair <<re, im>>.   *)
(*  Sums of representable numbers are taken exactly.                       *)
(***************************************************************************)
\* steps per unit of the representable numbers (a binary grid, as float64's)
Ulps == 1024

\* the integer nearest to n / d, for d > 0
RoundDiv(n, d) == (2 * n + d) \div (2 * d)

\* a * b, rounded
FlMul(a, b) == RoundDiv(a * b, Ulps)

\* a / b for b > 0, rounded
FlDiv(a, b) == RoundDiv(a * Ulps, b)

\* the largest integer whose square is at most x, for x >= 0
RECURSIVE IntSqrt(_)
IntSqrt(x) ==
    IF x < 2 THEN x
    ELSE LET s == 2 * IntSqrt(x \div 4)
         IN IF (s + 1) * (s + 1) <= x THEN s + 1 ELSE s

\* np.sqrt(a) for a >= 0, rounded
FlSqrt(a) ==
    LET x == a * Ulps
        floor == IntSqrt(x)
    IN IF x - floor * floor <= floor THEN floor ELSE floor + 1

\* np.abs(c)**2 of a complex number: the rounded modulus, squared
FlAbsSq(c) ==
    LET modulus == FlSqrt(FlMul(c[1], c[1]) + FlMul(c[2], c[2]))
    IN FlMul(modulus, modulus)

\* np.exp(1j * phase) for a phase of k eighths of a turn: cosine and sine
\* are 0, 1, -1 or the rounded square root of 1/2
FlExpI(k) ==
    LET half == FlSqrt(RoundDiv(Ulps, 2))
        cos(m) == CASE m % 8 = 0 -> Ulps
                    [] m % 8 \in {1, 7} -> half
                    [] m % 8 \in {2, 6} -> 0
                    [] m % 8 \in {3, 5} -> 0 - half
                    [] m % 8 = 4 -> 0 - Ulps
    IN <<cos(k), cos(k + 6)>>

\* _create_superposition_state with the phase of the n-th item given:
\* component j holds amplitude * np.exp(1j * phase) of the emotion whose
\* basis vector is j, and the state is divided by its norm
f64_create_superposition_state(emotions, phases) ==
    LET items(j) == {k \in 1..Len(emotions) :
                        /\ InEmotionBasis(emotions[k][1])
                        /\ emotion_basis(emotions[k][1]) = BasisVector(j - 1)}
        component(j) ==
            IF items(j) = {} THEN <<0, 0>>
            ELSE LET k == CHOOSE i \in items(j) : TRUE
                     amplitude == FlSqrt(RoundDiv(emotions[k][2][1] * Ulps, emotions[k][2][2]))
                     unit == FlExpI(phases[k])
                 IN <<FlMul(amplitude, unit[1]), FlMul(amplitude, unit[2])>>
        state == Tuple([j \in Dims |-> component(j)])
        squares == RSum(Tuple([j \in Dims |->
                      R(FlMul(state[j][1], state[j][1]) + FlMul(state[j][2], state[j][2]), 1)]))
        norm == FlSqrt(squares[1])
    IN IF norm > 0
       THEN Tuple([j \in Dims |-> <<FlDiv(state[j][1], norm), FlDiv(state[j][2], norm)>>])
       ELSE state

\* no emotion of the dict has a row in entanglement_matrix: the inner loop
\* of _apply_entanglement multiplies nothing and the operator is np.eye
Unrotated(emotions) ==
    \A k \in 1..Len(emotions) : ~HasKey(entanglement_matrix, emotions[k][1])

\* _quantum_measurement: projection * (1 + boost) for each dance style,
\* divided by the total, as <<dance, probability>> items
f64_dance_probabilities(quantum_state, emotions) ==
    LET n == IF Len(DANCE_STYLES) < QUANTUM_DIMENSIONS
             THEN Len(DANCE_STYLES) ELSE QUANTUM_DIMENSIONS
        boost(i) == WeightedSum(entanglement_matrix, emotions, DANCE_STYLES[i])
        weight(i) == FlMul(FlAbsSq(quantum_state[i]),
                           Ulps + RoundDiv(boost(i)[1] * Ulps, boost(i)[2]))
        total == RSum(Tuple([i \in 1..n |-> R(weight(i), 1)]))[1]
    IN Tuple([i \in 1..n |->
          <<DANCE_STYLES[i],
            IF total > 0 THEN R(FlDiv(weight(i), total), Ulps) ELSE R(weight(i), Ulps)>>])

\* the record recommend() returns, from quantum_state and the normalised
\* dance_probabilities
f64_record(quantum_state, probabilities, emotions) ==
    LET sum == <<RSum(Tuple([j \in Dims |-> R(quantum_state[j][1], 1)]))[1],
                 RSum(Tuple([j \in Dims |-> R(quantum_state[j][2], 1)]))[1]>>
    IN [recommendations |-> MeasuredRecommendations(probabilities, emotions),
        method |-> "quantum",
        quantum_properties |->
            [superposition_entropy |->
                 calculate_entropy(Tuple([j \in Dims |-> R(FlAbsSq(quantum_state[j]), Ulps)])),
             entanglement_strength |-> ENTANGLEMENT_STRENGTH,
             coherence |-> R(FlSqrt(FlMul(sum[1], sum[1]) + FlMul(sum[2], sum[2])), Ulps)]]

(***************************************************************************)
(* video_processor.py                                                      *)
(*  A frame is its index in the video. Tracked points are held as their    *)
(*  number and the frame their locations lie on.                           *)
(***************************************************************************)
\* if len(features['frames']) < 10
MAX_STORED_FRAMES == 10

\* prev_points is None or len(prev_points) < 10
MIN_TRACKED_POINTS == 10

\* frame_count % Config.FRAME_SAMPLE_RATE == 0
IsSampled(count) == count % FRAME_SAMPLE_RATE = 0

\* mutant: len(features['frames']) <= 10
StoreFrame_OneMore(stored, frame) ==
    IF Len(stored) <= MAX_STORED_FRAMES THEN Append(stored, frame) ELSE stored

\* if len(features['frames']) < 10: features['frames'].append(frame)
StoreFrame(stored, frame) ==
    IF Len(stored) < MAX_STORED_FRAMES THEN Append(stored, frame) ELSE stored

\* prev_points is None or len(prev_points) < 10
NeedsDetection(points) ==
    points = <<>> \/ points[1].count < MIN_TRACKED_POINTS

\* np.mean of a non-empty list
Mean(xs) == RDiv(RSum(xs), R(Len(xs), 1))

\* np.max of a non-empty list
MaxOf(xs) == xs[CHOOSE i \in 1..Len(xs) : \A j \in 1..Len(xs) : RLe(xs[j], xs[i])]

\* np.var of a non-empty list: the mean of the squared deviations
Var(xs) ==
    LET mean == Mean(xs)
    IN Mean(Tuple([i \in 1..Len(xs) |-> RMul(RSub(xs[i], mean), RSub(xs[i], mean))]))

\* np.std of a non-empty list: 0.0 when the variance is 0, otherwise the
\* square root of the variance, held as the list it is taken of
StdOf(xs) ==
    IF Var(xs) = Zero THEN [exact |-> <<Zero>>, std_of |-> <<>>]
    ELSE [exact |-> <<>>, std_of |-> xs]

\* mutant: max_velocity defaults to 1.0 when there is no velocity sample
VelocityStatistics_DefaultOne(samples) ==
    IF samples # <<>>
    THEN [avg_velocity |-> Mean(samples), max_velocity |-> MaxOf(samples),
          velocity_variance |-> Var(samples)]
    ELSE [avg_velocity |-> Zero, max_velocity |-> One, velocity_variance |-> Zero]

\* lines 87-95: mean, max and variance of the velocities, 0.0 without samples
VelocityStatistics(samples) ==
    IF samples # <<>>
    THEN [avg_velocity |-> Mean(samples), max_velocity |-> MaxOf(samples),
          velocity_variance |-> Var(samples)]
    ELSE [avg_velocity |-> Zero, max_velocity |-> Zero, velocity_variance |-> Zero]

\* mutant: max(aggregated['avg_velocity'], 1.0)
MaxVal_AvgOnly(avg, top) == RMax(avg, One)

\* max(aggregated['avg_velocity'], aggregated['max_velocity'], 1.0)
MaxVal(avg, top) == RMax(RMax(avg, top), One)

\* _aggregate_features(features), features holding the four lists
aggregate_features(collected) ==
    LET stats == VelocityStatistics(collected.velocities)
        max_val == MaxVal(stats.avg_velocity, stats.max_velocity)
    IN [avg_velocity |-> RDiv(stats.avg_velocity, max_val),
        max_velocity |-> RDiv(stats.max_velocity, max_val),
        velocity_variance |-> stats.velocity_variance,
        avg_acceleration |-> IF collected.accelerations # <<>>
                             THEN Mean(collected.accelerations) ELSE Zero,
        acceleration_variance |-> IF collected.accelerations # <<>>
                                  THEN Var(collected.accelerations) ELSE Zero,
        pose_diversity |-> IF collected.motion_magnitudes # <<>>
                           THEN StdOf(collected.motion_magnitudes)
                           ELSE [exact |-> <<Zero>>, std_of |-> <<>>],
        sample_frames |-> collected.frames]

(***************************************************************************)
(* Inputs                                                                  *)
(***************************************************************************)
FeatureLevels == {R(3 * k, 10) : k \in 0..MaxFeat}

TopLevel == R(3 * MaxFeat, 10)

\* sample_frames: each frame is what the face cascade reports on it
FrameSequences == UNION {[1..n -> BOOLEAN] : n \in 0..MaxFrames}

\* a moderate velocity with a low variance
GracefulFeatures ==
    [avg_velocity |-> R(9, 10), max_velocity |-> One, velocity_variance |-> R(1, 20),
     avg_acceleration |-> Zero, acceleration_variance |-> Zero,
     pose_diversity |-> Zero, sample_frames |-> <<>>]

\* motionless records with one sample frame more than FrameSequences holds,
\* so that a frame can follow the frame on which a face is found
ManyFrameFeatures ==
    {[avg_velocity |-> Zero, max_velocity |-> Zero, velocity_variance |-> Zero,
      avg_acceleration |-> Zero, acceleration_variance |-> Zero,
      pose_diversity |-> Zero, sample_frames |-> fr] :
        fr \in [1..(MaxFrames + 1) -> BOOLEAN]}

\* AggregatedFeatures records with non-negative fields; acceleration_variance
\* is read by no operation and is left at 0.0
FeatureInputs ==
    ({[avg_velocity |-> v, max_velocity |-> m, velocity_variance |-> var,
      avg_acceleration |-> a, acceleration_variance |-> Zero,
      pose_diversity |-> p, sample_frames |-> fr] :
        v \in FeatureLevels, m \in {Zero, One}, var \in FeatureLevels,
        a \in {Zero, TopLevel}, p \in {Zero, TopLevel}, fr \in FrameSequences}
    \ {f \in [avg_velocity : FeatureLevels, max_velocity : {Zero},
               velocity_variance : FeatureLevels, avg_acceleration : {Zero, TopLevel},
               acceleration_variance : {Zero}, pose_diversity : {Zero, TopLevel},
               sample_frames : FrameSequences] : f.avg_velocity # Zero})
    \cup {GracefulFeatures}
    \cup ManyFrameFeatures

\* the records aggregate_features can return: avg_velocity and max_velocity
\* were divided by max(avg_velocity, max_velocity, 1.0)
ExtractableFeatures ==
    {f \in FeatureInputs :
        /\ RLe(f.avg_velocity, f.max_velocity)
        /\ RLe(f.max_velocity, One)
        /\ (f.avg_velocity = Zero => f.max_velocity = Zero)}

\* the videos a request can meet: the file may be missing, may fail to open,
\* or decodes to frames from which the features are extracted
Videos ==
    {[exists |-> FALSE, openable |-> FALSE, features |-> <<>>],
     [exists |-> TRUE, openable |-> FALSE, features |-> <<>>]}
    \cup {[exists |-> TRUE, openable |-> TRUE, features |-> <<f>>] :
            f \in {x \in ExtractableFeatures : x.pose_diversity = x.avg_acceleration}}

Probabilities == {R(k, Grid) : k \in 0..Grid}

EmotionNames == Range(AllEmotions)

\* the emotions paired in the two-emotion dicts
PairedEmotions == {"happy", "sad", "angry", "energetic", "playful", "melancholic"}

\* combined distributions of analyze_emotions, for features without
\* acceleration, variance and pose diversity
AnalyzedInputs ==
    {combine_emotions(analyze_facial_presence(f.sample_frames),
                      analyze_movement_emotions(f), AllEmotions) :
        f \in {x \in FeatureInputs : /\ x.velocity_variance = Zero
                                     /\ x.avg_acceleration = Zero
                                     /\ x.pose_diversity = Zero}}

\* a key that is in neither vocabulary and in neither table
UnlistedEmotion == "bored"

\* dicts that hold the unlisted key, alone or after a listed emotion with a
\* row in both tables (happy) or in the affinity table only (neutral)
UnlistedInputs ==
    {<< <<UnlistedEmotion, q>> >> : q \in Probabilities}
    \cup {<< <<e, q1>>, <<UnlistedEmotion, q2>> >> :
            e \in {"happy", "neutral"}, q1 \in Probabilities, q2 \in Probabilities}

\* distributions handed to recommend() directly: dicts of one or two
\* emotions, the two facial distributions, and combined distributions
DistInputs ==
    {<< <<e, q>> >> : e \in EmotionNames, q \in Probabilities}
    \cup {<< <<es[1], q1>>, <<es[2], q2>> >> :
            es \in {x \in PairedEmotions \X PairedEmotions : x[1] # x[2]},
            q1 \in Probabilities, q2 \in Probabilities}
    \cup {UniformFacial, FaceDetectedEmotions}
    \cup AnalyzedInputs
    \cup UnlistedInputs

Seeds == 0..MaxSeed

\* np.mean(np.linalg.norm(motion, axis=1)) of a sampled pair
VelocitySamples == {R(1, 2), R(3, 1)}

\* sizes of the point sets goodFeaturesToTrack and the status filter yield
PointCounts == {1, MIN_TRACKED_POINTS}

\* cv2.goodFeaturesToTrack(prev_gray, ...): None or a number of corners
DetectOutcomes == {<<>>} \cup {<<n>> : n \in PointCounts}

\* cv2.calcOpticalFlowPyrLK(...): next_points None, or the number of points
\* with status 1 and the mean length of their motion
FlowOutcomes ==
    {[next_points |-> FALSE, survivors |-> 0, velocity |-> Zero],
     [next_points |-> TRUE, survivors |-> 0, velocity |-> Zero]}
    \cup {[next_points |-> TRUE, survivors |-> n, velocity |-> v] :
            n \in PointCounts, v \in VelocitySamples}

(***************************************************************************)
(* State                                                                   *)
(*  An absent value (None, an unset local) is <<>>, a present one <<v>>.   *)
(***************************************************************************)
VARIABLES
    entry,           \* the function the caller entered: "analyze_video",
                     \* "analyze_emotions" or "recommend"
    pc,              \* position of the call
    video,           \* the video file of the request
    video_cache,     \* app.video_cache: the result stored for the video id
    response,        \* the last response of analyze_video
    requests,        \* number of analyze requests started
    open_attempts,   \* cv2.VideoCapture(video_path) calls of the request
    frames_read,     \* cap.read() calls of the request
    exception,       \* the exception that left extract_features
    features,        \* the record extract_features returned
    analysis,        \* the record analyze_emotions returned
    emotions,        \* the argument of both recommend() calls
    classical_recs,  \* result of ClassicalRecommender.recommend
    quantum_state,   \* result of _create_superposition_state
    entangled_state, \* result of _apply_entanglement
    quantum_weights, \* dance_probabilities after normalisation
    quantum_recs,    \* result of QuantumRecommender.recommend
    rng,             \* state of the phase generator
    rng_at_entry,    \* state of the generator when recommend() was entered
    first,           \* the results of the first of two calls
    face_checks,     \* detectMultiScale calls of _analyze_facial_presence
    frame_count,     \* extract_features: frames read so far
    prev_gray,       \* the previous sampled frame
    prev_points,     \* the tracked points and the frame they lie on
    prev_velocity,   \* the velocity of the last motion sample
    velocities,      \* features['velocities']
    accelerations,   \* features['accelerations']
    motion_magnitudes, \* features['motion_magnitudes']
    stored_frames,   \* features['frames']
    lk_input,        \* the points and the frame handed to the last
                     \* calcOpticalFlowPyrLK call
    handlers         \* the analyze_video calls that run at the same time:
                     \* each one's position, result and response

vars == <<entry, pc, video, video_cache, response, requests, open_attempts,
          frames_read, exception, features, analysis, emotions, classical_recs,
          quantum_state, entangled_state, quantum_weights, quantum_recs, rng,
          rng_at_entry, first, face_checks, frame_count, prev_gray, prev_points,
          prev_velocity, velocities, accelerations, motion_magnitudes,
          stored_frames, lk_input, handlers>>

\* the locals of the frame loop of extract_features
loop_vars == <<frame_count, prev_gray, prev_points, prev_velocity, velocities,
               accelerations, motion_magnitudes, stored_frames, lk_input>>

\* extract_features lines 19-29: empty lists, no previous frame, no points
LoopLocalsInitial ==
    /\ frame_count = 0
    /\ prev_gray = <<>>
    /\ prev_points = <<>>
    /\ prev_velocity = Zero
    /\ velocities = <<>>
    /\ accelerations = <<>>
    /\ motion_magnitudes = <<>>
    /\ stored_frames = <<>>
    /\ lk_input = <<>>

NoResults ==
    /\ analysis = <<>>
    /\ classical_recs = <<>>
    /\ quantum_state = <<>>
    /\ entangled_state = <<>>
    /\ quantum_weights = <<>>
    /\ quantum_recs = <<>>
    /\ first = <<>>
    /\ exception = <<>>
    /\ response = <<>>
    /\ video_cache = <<>>
    /\ requests = 0
    /\ open_attempts = 0
    /\ frames_read = 0
    /\ face_checks = 0
    /\ handlers = <<>>
    /\ LoopLocalsInitial

\* the application: a video is on disk (or not) and no request was made yet
Init ==
    /\ entry = "analyze_video"
    /\ pc = "idle"
    /\ video \in Videos
    /\ features = <<>>
    /\ emotions = <<>>
    /\ rng \in Seeds
    /\ rng_at_entry = rng
    /\ NoResults

\* direct calls of analyze_emotions(features) and of recommend(emotions)
InitUnit ==
    /\ video = [exists |-> FALSE, openable |-> FALSE, features |-> <<>>]
    /\ \/ /\ entry = "analyze_emotions"
          /\ pc = "analyze"
          /\ features \in {<<f>> : f \in FeatureInputs}
          /\ emotions = <<>>
       \/ /\ entry = "recommend"
          /\ pc = "classical"
          /\ features = <<>>
          /\ emotions \in {<<d>> : d \in DistInputs}
    /\ rng \in Seeds
    /\ rng_at_entry = rng
    /\ NoResults

(***************************************************************************)
(* app.py: analyze_video                                                   *)
(***************************************************************************)
VideoId == "video-1"

Response(status, body) == [status |-> status, body |-> body]

\* mutant: the file check comes before the cache check
AnalyzeVideo_ExistsFirst ==
    /\ UNCHANGED loop_vars
    /\ UNCHANGED handlers
    /\ UNCHANGED face_checks
    /\ entry = "analyze_video"
    /\ pc = "idle"
    /\ requests < MaxRequests
    /\ requests' = requests + 1
    /\ open_attempts' = 0
    /\ frames_read' = 0
    /\ exception' = <<>>
    /\ features' = <<>>
    /\ analysis' = <<>>
    /\ emotions' = <<>>
    /\ classical_recs' = <<>>
    /\ quantum_state' = <<>>
    /\ entangled_state' = <<>>
    /\ quantum_weights' = <<>>
    /\ quantum_recs' = <<>>
    /\ IF ~video.exists
       THEN /\ response' = <<Response(404, [error |-> "Video not found"])>>
            /\ pc' = "idle"
       ELSE IF HasKey(video_cache, VideoId)
       THEN /\ response' = <<Response(200, Get(video_cache, VideoId, <<>>))>>
            /\ pc' = "idle"
       ELSE /\ response' = <<>>
            /\ pc' = "extract_open"
    /\ UNCHANGED <<entry, video, video_cache, rng, rng_at_entry, first>>

\* the cache check and the file check that open the handler
AnalyzeVideo ==
    /\ UNCHANGED loop_vars
    /\ UNCHANGED handlers
    /\ UNCHANGED face_checks
    /\ entry = "analyze_video"
    /\ pc = "idle"
    /\ requests < MaxRequests
    /\ requests' = requests + 1
    /\ open_attempts' = 0
    /\ frames_read' = 0
    /\ exception' = <<>>
    /\ features' = <<>>
    /\ analysis' = <<>>
    /\ emotions' = <<>>
    /\ classical_recs' = <<>>
    /\ quantum_state' = <<>>
    /\ entangled_state' = <<>>
    /\ quantum_weights' = <<>>
    /\ quantum_recs' = <<>>
    /\ IF HasKey(video_cache, VideoId)
       THEN /\ response' = <<Response(200, Get(video_cache, VideoId, <<>>))>>
            /\ pc' = "idle"
       ELSE IF ~video.exists
       THEN /\ response' = <<Response(404, [error |-> "Video not found"])>>
            /\ pc' = "idle"
       ELSE /\ response' = <<>>
            /\ pc' = "extract_open"
    /\ UNCHANGED <<entry, video, video_cache, rng, rng_at_entry, first>>

(***************************************************************************)
(* video_processor.py: extract_features                                    *)
(***************************************************************************)
\* mutant: the isOpened() check is missing
OpenFails_Never(v) == FALSE

\* cap = cv2.VideoCapture(video_path); if not cap.isOpened(): raise
OpenFails(v) == ~v.openable

ExtractOpen ==
    /\ UNCHANGED loop_vars
    /\ UNCHANGED handlers
    /\ UNCHANGED face_checks
    /\ pc = "extract_open"
    /\ open_attempts' = open_attempts + 1
    /\ IF OpenFails(video)
       THEN /\ exception' = <<[type |-> "ValueError", message |-> "Could not open video file"]>>
            /\ pc' = "except"
       ELSE /\ exception' = <<>>
            /\ pc' = IF entry = "extract_features" THEN "loop" ELSE "extract_read"
    /\ UNCHANGED <<entry, video, video_cache, response, requests, frames_read,
                   features, analysis, emotions, classical_recs, quantum_state,
                   entangled_state, quantum_weights, quantum_recs, rng,
                   rng_at_entry, first>>

\* what the frame loop and aggregate_features make of the video: a capture
\* that is not opened yields no frame, and every statistic is then 0.0
ExtractedFeatures(v) ==
    IF v.openable THEN v.features[1]
    ELSE [avg_velocity |-> Zero, max_velocity |-> Zero, velocity_variance |-> Zero,
          avg_acceleration |-> Zero, acceleration_variance |-> Zero,
          pose_diversity |-> Zero, sample_frames |-> <<>>]

\* cap.read() calls of the loop: one per retained sample frame at least,
\* and the one that returns ret = False
ReadCalls(v) == IF v.openable THEN Len(v.features[1].sample_frames) + 1 ELSE 0

\* the frame loop, cap.release() and aggregate_features
ExtractRead ==
    /\ UNCHANGED loop_vars
    /\ UNCHANGED handlers
    /\ UNCHANGED face_checks
    /\ pc = "extract_read"
    /\ frames_read' = ReadCalls(video)
    /\ features' = <<ExtractedFeatures(video)>>
    /\ pc' = "analyze"
    /\ UNCHANGED <<entry, video, video_cache, response, requests, open_attempts,
                   exception, analysis, emotions, classical_recs, quantum_state,
                   entangled_state, quantum_weights, quantum_recs, rng,
                   rng_at_entry, first>>

(***************************************************************************)
(* video_processor.py: the frame loop of extract_features                  *)
(***************************************************************************)
\* a direct call of extract_features(video_path)
InitFrames ==
    /\ entry = "extract_features"
    /\ pc = "extract_open"
    /\ video \in {[exists |-> TRUE, openable |-> o, features |-> <<>>] : o \in BOOLEAN}
    /\ features = <<>>
    /\ emotions = <<>>
    /\ rng = 0
    /\ rng_at_entry = 0
    /\ NoResults

\* cap.read() returns a frame whose index is not a multiple of the rate
ReadSkipped ==
    /\ UNCHANGED handlers
    /\ pc = "loop"
    /\ frame_count < MaxVideoFrames
    /\ ~IsSampled(frame_count)
    /\ frames_read' = frames_read + 1
    /\ frame_count' = frame_count + 1
    /\ UNCHANGED <<entry, pc, video, video_cache, response, requests, open_attempts,
                   exception, features, analysis, emotions, classical_recs,
                   quantum_state, entangled_state, quantum_weights, quantum_recs,
                   rng, rng_at_entry, first, face_checks, prev_gray, prev_points,
                   prev_velocity, velocities, accelerations, motion_magnitudes,
                   stored_frames, lk_input>>

\* cap.read() returns a sampled frame: lines 38-74
ReadSampled ==
    /\ UNCHANGED handlers
    /\ pc = "loop"
    /\ frame_count < MaxVideoFrames
    /\ IsSampled(frame_count)
    /\ \E detect \in DetectOutcomes, flow \in FlowOutcomes :
         LET gray == frame_count
             points == IF prev_gray = <<>> THEN prev_points
                       ELSE IF NeedsDetection(prev_points)
                            THEN IF detect = <<>> THEN <<>>
                                 ELSE <<[count |-> detect[1], frame |-> prev_gray[1]]>>
                            ELSE prev_points
             tracked == prev_gray # <<>> /\ points # <<>>
             moved == tracked /\ flow.next_points /\ flow.survivors > 0
             velocity == flow.velocity
         IN /\ tracked => flow.survivors <= points[1].count
            /\ moved => Len(velocities) < MaxSamples
            /\ lk_input' = IF tracked
                           THEN <<[points |-> points[1], prev_frame |-> prev_gray[1]]>>
                           ELSE <<>>
            /\ IF moved
               THEN /\ velocities' = Append(velocities, velocity)
                    /\ accelerations' = Append(accelerations,
                                               RAbs(RSub(velocity, prev_velocity)))
                    /\ prev_velocity' = velocity
                    /\ motion_magnitudes' =
                         Append(motion_magnitudes,
                                RMul(velocity, R(flow.survivors, 1)))
                    /\ prev_points' = <<[count |-> flow.survivors, frame |-> gray]>>
               ELSE /\ prev_points' = points
                    /\ UNCHANGED <<velocities, accelerations, prev_velocity,
                                   motion_magnitudes>>
            /\ stored_frames' = StoreFrame(stored_frames, frame_count)
            /\ prev_gray' = <<gray>>
    /\ frames_read' = frames_read + 1
    /\ frame_count' = frame_count + 1
    /\ UNCHANGED <<entry, pc, video, video_cache, response, requests, open_attempts,
                   exception, features, analysis, emotions, classical_recs,
                   quantum_state, entangled_state, quantum_weights, quantum_recs,
                   rng, rng_at_entry, first, face_checks>>

\* cap.read() returns ret = False: break, cap.release() and the return of
\* _aggregate_features(features)
ReadEnd ==
    /\ pc = "loop"
    /\ frames_read' = frames_read + 1
    /\ features' = <<aggregate_features([velocities |-> velocities,
                                         accelerations |-> accelerations,
                                         motion_magnitudes |-> motion_magnitudes,
                                         frames |-> stored_frames])>>
    /\ pc' = "returned"
    /\ UNCHANGED <<entry, video, video_cache, response, requests, open_attempts,
                   exception, analysis, emotions, classical_recs, quantum_state,
                   entangled_state, quantum_weights, quantum_recs, rng,
                   rng_at_entry, first, face_checks>>
    /\ UNCHANGED loop_vars
    /\ UNCHANGED handlers

\* mutant: the handler stores the error body under the video id before it
\* returns 500
HandleException_CachesError ==
    /\ UNCHANGED loop_vars
    /\ UNCHANGED handlers
    /\ UNCHANGED face_checks
    /\ pc = "except"
    /\ exception # <<>>
    /\ response' = <<Response(500, [error |-> <<"Analysis failed: ", exception[1].message>>])>>
    /\ video_cache' = << <<VideoId, [error |-> <<"Analysis failed: ", exception[1].message>>]>> >>
    /\ pc' = "idle"
    /\ UNCHANGED <<entry, video, requests, open_attempts, frames_read,
                   exception, features, analysis, emotions, classical_recs,
                   quantum_state, entangled_state, quantum_weights, quantum_recs,
                   rng, rng_at_entry, first>>

\* except Exception as e: return jsonify({'error': f'Analysis failed: {str(e)}'}), 500
HandleException ==
    /\ UNCHANGED loop_vars
    /\ UNCHANGED handlers
    /\ UNCHANGED face_checks
    /\ pc = "except"
    /\ exception # <<>>
    /\ response' = <<Response(500, [error |-> <<"Analysis failed: ", exception[1].message>>])>>
    /\ pc' = "idle"
    /\ UNCHANGED <<entry, video, video_cache, requests, open_attempts, frames_read,
                   exception, features, analysis, emotions, classical_recs,
                   quantum_state, entangled_state, quantum_weights, quantum_recs,
                   rng, rng_at_entry, first>>

(***************************************************************************)
(* emotion_analyzer.py: analyze_emotions                                   *)
(***************************************************************************)
analyze_emotions(video_features, order) ==
    LET facial_emotions == analyze_facial_presence(video_features.sample_frames)
        movement_emotions == analyze_movement_emotions(video_features)
    IN [facial |-> facial_emotions,
        movement |-> movement_emotions,
        combined |-> combine_emotions(facial_emotions, movement_emotions, order)]

AnalyzeEmotions ==
    /\ UNCHANGED loop_vars
    /\ UNCHANGED handlers
    /\ pc = "analyze"
    /\ features # <<>>
    /\ \E order \in SetOrders(analyze_facial_presence(features[1].sample_frames),
                              analyze_movement_emotions(features[1])) :
         LET result == analyze_emotions(features[1], order)
         IN /\ analysis' = <<result>>
            /\ emotions' = <<result.combined>>
    /\ face_checks' = FacesExamined(features[1].sample_frames, 1)
    /\ pc' = IF entry = "analyze_emotions" THEN "returned" ELSE "classical"
    /\ UNCHANGED <<entry, video, video_cache, response, requests, open_attempts,
                   frames_read, exception, features, classical_recs, quantum_state,
                   entangled_state, quantum_weights, quantum_recs, rng,
                   rng_at_entry, first>>

(***************************************************************************)
(* classical_recommender.py / quantum_recommender.py: recommend            *)
(***************************************************************************)
\* mutant: the recommendations list is kept on the recommender between
\* calls, so a call appends to what the previous call returned
ClassicalRecommend_Kept ==
    /\ UNCHANGED loop_vars
    /\ UNCHANGED handlers
    /\ UNCHANGED face_checks
    /\ pc = "classical"
    /\ LET previous == IF classical_recs = <<>> THEN <<>>
                       ELSE classical_recs[1].recommendations
           recommendations == previous \o ClassicalRecommendations(emotions[1])
       IN classical_recs' = <<[recommendations |-> recommendations,
                               method |-> "classical",
                               diversity_score |-> calculate_diversity(recommendations)]>>
    /\ pc' = "superposition"
    /\ rng_at_entry' = rng
    /\ UNCHANGED <<entry, video, video_cache, response, requests, open_attempts,
                   frames_read, exception, features, analysis, emotions,
                   quantum_state, entangled_state, quantum_weights, quantum_recs,
                   rng, first>>

\* mutant: the entries of probability 0 are deleted from the caller's dict
\* while the scores are accumulated
ClassicalRecommend_DropsZeros ==
    /\ UNCHANGED loop_vars
    /\ UNCHANGED handlers
    /\ UNCHANGED face_checks
    /\ pc = "classical"
    /\ classical_recs' = <<classical_recommend(emotions[1])>>
    /\ emotions' = <<SelectSeq(emotions[1], LAMBDA x : x[2] # Zero)>>
    /\ pc' = "superposition"
    /\ rng_at_entry' = rng
    /\ UNCHANGED <<entry, video, video_cache, response, requests, open_attempts,
                   frames_read, exception, features, analysis,
                   quantum_state, entangled_state, quantum_weights, quantum_recs,
                   rng, first>>

ClassicalRecommend ==
    /\ UNCHANGED loop_vars
    /\ UNCHANGED handlers
    /\ UNCHANGED face_checks
    /\ pc = "classical"
    /\ classical_recs' = <<classical_recommend(emotions[1])>>
    /\ pc' = "superposition"
    /\ rng_at_entry' = rng
    /\ UNCHANGED <<entry, video, video_cache, response, requests, open_attempts,
                   frames_read, exception, features, analysis, emotions,
                   quantum_state, entangled_state, quantum_weights, quantum_recs,
                   rng, first>>

\* Step 1 of QuantumRecommender.recommend
CreateSuperposition ==
    /\ UNCHANGED loop_vars
    /\ UNCHANGED handlers
    /\ UNCHANGED face_checks
    /\ pc = "superposition"
    /\ LET r == create_superposition_state(emotions[1], rng)
       IN /\ quantum_state' = <<r.state>>
          /\ rng' = r.rng
    /\ pc' = "entangle"
    /\ UNCHANGED <<entry, video, video_cache, response, requests, open_attempts,
                   frames_read, exception, features, analysis, emotions,
                   classical_recs, entangled_state, quantum_weights, quantum_recs,
                   rng_at_entry, first>>

\* Step 2 of QuantumRecommender.recommend
ApplyEntanglement ==
    /\ UNCHANGED loop_vars
    /\ UNCHANGED handlers
    /\ UNCHANGED face_checks
    /\ pc = "entangle"
    /\ entangled_state' = <<apply_entanglement(quantum_state[1], emotions[1])>>
    /\ pc' = "measure"
    /\ UNCHANGED <<entry, video, video_cache, response, requests, open_attempts,
                   frames_read, exception, features, analysis, emotions,
                   classical_recs, quantum_state, quantum_weights, quantum_recs,
                   rng, rng_at_entry, first>>

\* Step 3 of QuantumRecommender.recommend and the returned record
QuantumMeasurement ==
    /\ UNCHANGED loop_vars
    /\ UNCHANGED handlers
    /\ UNCHANGED face_checks
    /\ pc = "measure"
    /\ LET probabilities == dance_probabilities(entangled_state[1], emotions[1])
       IN /\ quantum_weights' = <<probabilities>>
          /\ quantum_recs' =
               <<[recommendations |-> MeasuredRecommendations(probabilities, emotions[1]),
                  method |-> "quantum",
                  quantum_properties |-> quantum_properties(quantum_state[1])]>>
    /\ pc' = IF entry = "analyze_video" THEN "respond" ELSE "returned"
    /\ UNCHANGED <<entry, video, video_cache, response, requests, open_attempts,
                   frames_read, exception, features, analysis, emotions,
                   classical_recs, quantum_state, entangled_state, rng,
                   rng_at_entry, first>>

\* the result record of analyze_video
Result ==
    [video_id |-> VideoId,
     emotions |-> analysis[1],
     classical_recommendations |-> classical_recs[1],
     quantum_recommendations |-> quantum_recs[1],
     comparison |-> [classical_diversity |-> classical_recs[1].diversity_score,
                     quantum_coherence |-> quantum_recs[1].quantum_properties.coherence]]

\* video_cache[video_id] = result; return jsonify(result), 200
Respond ==
    /\ UNCHANGED loop_vars
    /\ UNCHANGED handlers
    /\ UNCHANGED face_checks
    /\ pc = "respond"
    /\ video_cache' = << <<VideoId, Result>> >>
    /\ response' = <<Response(200, Result)>>
    /\ pc' = "idle"
    /\ UNCHANGED <<entry, video, requests, open_attempts, frames_read, exception,
                   features, analysis, emotions, classical_recs, quantum_state,
                   entangled_state, quantum_weights, quantum_recs, rng,
                   rng_at_entry, first>>

\* the caller invokes both engines a second time on the same distribution,
\* with the phase generator either re-seeded to the state of the first call
\* or left where the first call put it
CallAgain ==
    /\ UNCHANGED loop_vars
    /\ UNCHANGED handlers
    /\ UNCHANGED face_checks
    /\ entry = "recommend"
    /\ pc = "returned"
    /\ first = <<>>
    /\ first' = <<[emotions |-> emotions[1], rng_at_entry |-> rng_at_entry,
                   classical_recs |-> classical_recs[1],
                   quantum_recs |-> quantum_recs[1]]>>
    /\ rng' \in {rng_at_entry, rng}
    /\ pc' = "classical"
    /\ UNCHANGED <<entry, video, video_cache, response, requests, open_attempts,
                   frames_read, exception, features, analysis, emotions,
                   classical_recs, quantum_state, entangled_state, quantum_weights,
                   quantum_recs, rng_at_entry>>

Next ==
    \/ AnalyzeVideo
    \/ ExtractOpen
    \/ ExtractRead
    \/ HandleException
    \/ AnalyzeEmotions
    \/ ClassicalRecommend
    \/ CreateSuperposition
    \/ ApplyEntanglement
    \/ QuantumMeasurement
    \/ Respond

Spec == Init /\ [][Next]_vars

\* between two requests the uploaded file is deleted from the upload folder,
\* so that os.path.exists(video_path) is False from then on
RemoveVideo ==
    /\ entry = "analyze_video"
    /\ pc = "idle"
    /\ video.exists
    /\ video' = [video EXCEPT !.exists = FALSE]
    /\ UNCHANGED <<entry, pc, video_cache, response, requests, open_attempts,
                   frames_read, exception, features, analysis, emotions,
                   classical_recs, quantum_state, entangled_state, quantum_weights,
                   quantum_recs, rng, rng_at_entry, first, face_checks>>
    /\ UNCHANGED loop_vars
    /\ UNCHANGED handlers

\* sequential analyze requests for one video_id whose file may disappear
NextCache ==
    \/ AnalyzeVideo
    \/ ExtractOpen
    \/ ExtractRead
    \/ HandleException
    \/ AnalyzeEmotions
    \/ ClassicalRecommend
    \/ CreateSuperposition
    \/ ApplyEntanglement
    \/ QuantumMeasurement
    \/ Respond
    \/ RemoveVideo

SpecCache == Init /\ [][NextCache]_vars

(***************************************************************************)
(* app.py: analyze_video calls of several requests at the same time.  The  *)
(* calls share video_cache and the phase generator of numpy; each has its  *)
(* own locals.  A call's steps: the cache and file checks (58-65), the     *)
(* pipeline (67-86), the store and the return (88-94).                     *)
(***************************************************************************)
HandlerIds == {1, 2}

\* set(list(facial.keys()) + list(movement.keys())) iterates in one order
\* for the whole process
ProcessOrder(facial, movement, reversed) ==
    LET ks == Keys(facial) \o Keys(movement)
    IN IF reversed THEN Reverse(ks) ELSE ks

\* lines 67-72 for a file that opens: extract_features and analyze_emotions
PipelineEmotions(v, reversed) ==
    LET video_features == ExtractedFeatures(v)
        order == ProcessOrder(analyze_facial_presence(video_features.sample_frames),
                              analyze_movement_emotions(video_features), reversed)
    IN analyze_emotions(video_features, order)

\* lines 79-88: the result record of a call
ResultRecord(emotion_data, classical, quantum) ==
    [video_id |-> VideoId,
     emotions |-> emotion_data,
     classical_recommendations |-> classical,
     quantum_recommendations |-> quantum,
     comparison |-> [classical_diversity |-> classical.diversity_score,
                     quantum_coherence |-> quantum.quantum_properties.coherence]]

IdleCall == [pc |-> "idle", result |-> <<>>, response |-> <<>>]

\* the videos of the concurrent requests: a missing file, a file that does
\* not open, and the motionless videos
RaceVideos ==
    {v \in Videos : v.openable => /\ v.features[1].avg_velocity = Zero
                                  /\ v.features[1].velocity_variance = Zero
                                  /\ v.features[1].avg_acceleration = Zero}

InitRace ==
    /\ entry = "concurrent_requests"
    /\ pc = "idle"
    /\ video \in RaceVideos
    /\ features = <<>>
    /\ emotions = <<>>
    /\ rng \in Seeds
    /\ rng_at_entry = rng
    /\ analysis = <<>>
    /\ classical_recs = <<>>
    /\ quantum_state = <<>>
    /\ entangled_state = <<>>
    /\ quantum_weights = <<>>
    /\ quantum_recs = <<>>
    /\ first = <<>>
    /\ exception = <<>>
    /\ response = <<>>
    /\ video_cache = <<>>
    /\ requests = 0
    /\ open_attempts = 0
    /\ frames_read = 0
    /\ face_checks = 0
    /\ LoopLocalsInitial
    /\ handlers \in {[reversed |-> b, calls |-> [h \in HandlerIds |-> IdleCall]] :
                        b \in BOOLEAN}

\* the variables the concurrent calls do not use
sequential_vars == <<entry, pc, video, response, open_attempts, frames_read,
                     exception, features, analysis, emotions, classical_recs,
                     quantum_state, entangled_state, quantum_weights, quantum_recs,
                     rng_at_entry, first, face_checks>>

\* lines 59-65 of a call that a free worker takes up
RaceCheck(h) ==
    /\ entry = "concurrent_requests"
    /\ handlers.calls[h].pc \in {"idle", "done"}
    /\ requests < MaxRequests + 1
    /\ requests' = requests + 1
    /\ handlers' =
         [handlers EXCEPT !.calls[h] =
            IF HasKey(video_cache, VideoId)
            THEN [pc |-> "done", result |-> <<>>,
                  response |-> <<Response(200, Get(video_cache, VideoId, <<>>))>>]
            ELSE IF ~video.exists
            THEN [pc |-> "done", result |-> <<>>,
                  response |-> <<Response(404, [error |-> "Video not found"])>>]
            ELSE [pc |-> "checked", result |-> <<>>, response |-> <<>>]]
    /\ UNCHANGED <<video_cache, rng>>
    /\ UNCHANGED sequential_vars
    /\ UNCHANGED loop_vars

\* lines 67-88, and 99-100 when extract_features raises
RacePipeline(h) ==
    /\ entry = "concurrent_requests"
    /\ handlers.calls[h].pc = "checked"
    /\ IF OpenFails(video)
       THEN /\ handlers' =
                 [handlers EXCEPT !.calls[h] =
                    [pc |-> "done", result |-> <<>>,
                     response |-> <<Response(500,
                        [error |-> <<"Analysis failed: ", "Could not open video file">>])>>]]
            /\ rng' = rng
       ELSE \E emotion_data \in {PipelineEmotions(video, handlers.reversed)} :
            \E classical \in {classical_recommend(emotion_data.combined)} :
            \E superposition \in {create_superposition_state(emotion_data.combined, rng)} :
            \E entangled \in {apply_entanglement(superposition.state, emotion_data.combined)} :
            \E measured \in {quantum_measurement(entangled, emotion_data.combined)} :
            \E quantum \in {[recommendations |-> measured,
                             method |-> "quantum",
                             quantum_properties |-> quantum_properties(superposition.state)]} :
               /\ handlers' =
                    [handlers EXCEPT !.calls[h] =
                       [pc |-> "computed",
                        result |-> <<ResultRecord(emotion_data, classical, quantum)>>,
                        response |-> <<>>]]
               /\ rng' = superposition.rng
    /\ UNCHANGED <<video_cache, requests>>
    /\ UNCHANGED sequential_vars
    /\ UNCHANGED loop_vars

\* lines 91-97: video_cache[video_id] = result; return jsonify(result), 200
RaceStore(h) ==
    /\ entry = "concurrent_requests"
    /\ handlers.calls[h].pc = "computed"
    /\ video_cache' = << <<VideoId, handlers.calls[h].result[1]>> >>
    /\ handlers' = [handlers EXCEPT !.calls[h] =
                      [pc |-> "done", result |-> <<>>,
                       response |-> <<Response(200, handlers.calls[h].result[1])>>]]
    /\ UNCHANGED <<rng, requests>>
    /\ UNCHANGED sequential_vars
    /\ UNCHANGED loop_vars

NextRace ==
    \/ \E h \in HandlerIds : RaceCheck(h)
    \/ \E h \in HandlerIds : RacePipeline(h)
    \/ \E h \in HandlerIds : RaceStore(h)

SpecRace == InitRace /\ [][NextRace]_vars

NextUnit ==
    \/ AnalyzeEmotions
    \/ ClassicalRecommend
    \/ CreateSuperposition
    \/ ApplyEntanglement
    \/ QuantumMeasurement
    \/ CallAgain

SpecUnit == InitUnit /\ [][NextUnit]_vars

(***************************************************************************)
(* QuantumRecommender.recommend called twice on one dict, in finite        *)
(* precision.  The generator is held as the phases it yields to the call.  *)
(***************************************************************************)
\* phases are k eighths of a turn, k in 0..MaxPhase
PhaseDraws == [1..2 -> 0..MaxPhase]

\* dicts of one or two emotions that have a basis vector and no row in
\* entanglement_matrix, in vocabulary order
UnrotatedInputs ==
    LET names == {i \in 1..Len(AllEmotions) : ~HasKey(entanglement_matrix, AllEmotions[i])}
        thirds == {R(k, 3) : k \in 1..MaxThirds}
    IN {d \in {<< <<AllEmotions[i], q>> >> : i \in names, q \in thirds}
              \cup {<< <<AllEmotions[es[1]], q1>>, <<AllEmotions[es[2]], q2>> >> :
                      es \in {x \in names \X names : x[1] < x[2]},
                      q1 \in thirds, q2 \in thirds} :
          Unrotated(d)}

InitF64 ==
    /\ entry = "recommend_f64"
    /\ pc = "call"
    /\ video = [exists |-> FALSE, openable |-> FALSE, features |-> <<>>]
    /\ features = <<>>
    /\ emotions \in {<<d>> : d \in UnrotatedInputs}
    /\ rng \in PhaseDraws
    /\ rng_at_entry = rng
    /\ NoResults

\* the three steps of recommend() and the returned record, for a dict that
\* leaves the entanglement operator at np.eye (entangled_state is
\* quantum_state)
RecommendF64 ==
    /\ UNCHANGED loop_vars
    /\ UNCHANGED handlers
    /\ UNCHANGED face_checks
    /\ entry = "recommend_f64"
    /\ pc = "call"
    /\ Unrotated(emotions[1])
    /\ \E state \in {f64_create_superposition_state(emotions[1], rng)} :
       \E probabilities \in {f64_dance_probabilities(state, emotions[1])} :
          /\ quantum_state' = <<state>>
          /\ entangled_state' = <<state>>
          /\ quantum_weights' = <<probabilities>>
          /\ quantum_recs' = <<f64_record(state, probabilities, emotions[1])>>
    /\ pc' = "returned"
    /\ UNCHANGED <<entry, video, video_cache, response, requests, open_attempts,
                   frames_read, exception, features, analysis, emotions,
                   classical_recs, rng, rng_at_entry, first>>

\* the caller keeps the record and calls again on the same dict; the
\* generator yields any phases
CallAgainF64 ==
    /\ UNCHANGED loop_vars
    /\ UNCHANGED handlers
    /\ UNCHANGED face_checks
    /\ entry = "recommend_f64"
    /\ pc = "returned"
    /\ first = <<>>
    /\ first' = <<[emotions |-> emotions[1], phases |-> rng,
                   quantum_recs |-> quantum_recs[1]]>>
    /\ rng' \in PhaseDraws
    /\ pc' = "call"
    /\ UNCHANGED <<entry, video, video_cache, response, requests, open_attempts,
                   frames_read, exception, features, analysis, emotions,
                   classical_recs, quantum_state, entangled_state, quantum_weights,
                   quantum_recs, rng_at_entry>>

NextF64 ==
    \/ RecommendF64
    \/ CallAgainF64

SpecF64 == InitF64 /\ [][NextF64]_vars

NextFrames ==
    \/ ExtractOpen
    \/ ReadSkipped
    \/ ReadSampled
    \/ ReadEnd

SpecFrames == InitFrames /\ [][NextFrames]_vars


(***************************************************************************)
(* Properties                                                              *)
(***************************************************************************)
\* the values of a dict are all 0
AllZero(d) == \A i \in 1..Len(d) : d[i][2] = Zero

\* the score the recommendations give a style, None if it is not returned
ScoreIn(recommendations, dance) ==
    LET at == {i \in 1..Len(recommendations) : recommendations[i].dance_style = dance}
    IN IF at = {} THEN <<>> ELSE <<recommendations[CHOOSE i \in at : TRUE].score>>

\* recommendations are the first entries, at most K of them and each above
\* the floor, of a descending ranking of the scores dict
IsTopOfRanking(recommendations, scores, floor) ==
    /\ Len(recommendations) <= TOP_K_RECOMMENDATIONS
    /\ \A i \in 1..Len(recommendations) :
         /\ RLt(floor, recommendations[i].score)
         /\ recommendations[i].score = Get(scores, recommendations[i].dance_style, <<>>)
         /\ \A j \in 1..Len(recommendations) :
              /\ i < j => RLe(recommendations[j].score, recommendations[i].score)
              /\ i # j => recommendations[i].dance_style # recommendations[j].dance_style
    /\ \A k \in 1..Len(scores) :
         ScoreIn(recommendations, scores[k][1]) = <<>> =>
            /\ \A i \in 1..Len(recommendations) :
                 RLe(scores[k][2], recommendations[i].score)
            /\ Len(recommendations) < TOP_K_RECOMMENDATIONS => RLe(scores[k][2], floor)

\* C1: the combined distribution analyze_emotions returns has non-negative
\* values that sum to 1, and could sum to 0 only if the facial and the
\* movement distribution both sum to 0, whichever facial outcome applies.
C1_CombinedIsDistribution ==
    analysis # <<>> =>
        LET a == analysis[1]
            total == RSum(Values(a.combined))
        IN /\ \A i \in 1..Len(a.combined) : RLe(Zero, a.combined[i][2])
           /\ \/ total = One
              \/ /\ total = Zero
                 /\ RSum(Values(a.facial)) = Zero
                 /\ RSum(Values(a.movement)) = Zero
           /\ Len(a.combined) = Len(AllEmotions)

\* a face was found and the calm formula was clamped at 0
C1_Witness ==
    /\ entry = "analyze_emotions"
    /\ analysis # <<>>
    /\ analysis[1].facial = FaceDetectedEmotions
    /\ Get(analysis[1].movement, "calm", One) = Zero
    /\ RLt(One, RAdd(features[1].avg_velocity, features[1].velocity_variance))

\* the features of a video without motion and without sample frames
ZeroFeatures ==
    /\ features # <<>>
    /\ features[1].sample_frames = <<>>
    /\ features[1].avg_velocity = Zero
    /\ features[1].max_velocity = Zero
    /\ features[1].velocity_variance = Zero
    /\ features[1].avg_acceleration = Zero
    /\ features[1].pose_diversity = Zero

\* C2 as stated: for all-zero features and no sample frames the deterministic
\* engine returns an empty list.
C2_EmptyForZeroFeatures ==
    (ZeroFeatures /\ classical_recs # <<>>) =>
        classical_recs[1].recommendations = <<>>

\* C2: for all-zero features and no sample frames the movement formulas give
\* calm = melancholic = 1.0 and graceful = 0.3 before normalisation, the
\* combined distribution sums to 1, and the deterministic engine returns K
\* recommendations with positive scores, Contemporary first.
C2_FullListForZeroFeatures ==
    (ZeroFeatures /\ classical_recs # <<>>) =>
        LET recs == classical_recs[1].recommendations
        IN /\ RSum(Values(emotions[1])) = One
           /\ Get(analysis[1].movement, "calm", Zero)
                = Get(analysis[1].movement, "melancholic", One)
           /\ RLt(Zero, Get(analysis[1].movement, "calm", Zero))
           /\ Len(recs) = TOP_K_RECOMMENDATIONS
           /\ \A i \in 1..Len(recs) : RLt(Zero, recs[i].score)
           /\ recs[1].dance_style = "Contemporary"

C2_Witness ==
    /\ ZeroFeatures
    /\ classical_recs # <<>>
    /\ Len(classical_recs[1].recommendations) = TOP_K_RECOMMENDATIONS

\* C3: the deterministic engine returns at most K recommendations, each with
\* a score above 0, in non-increasing order of score, and they are the first
\* K positive-score styles of the descending ranking of all scores.
C3_ClassicalTopK ==
    classical_recs # <<>> =>
        IsTopOfRanking(classical_recs[1].recommendations,
                       dance_scores(emotions[1]), Zero)

\* more than K styles have a positive score, so the ranking is truncated
C3_Witness ==
    /\ entry = "recommend"
    /\ classical_recs # <<>>
    /\ Len(classical_recs[1].recommendations) = TOP_K_RECOMMENDATIONS
    /\ LET scores == dance_scores(emotions[1])
       IN Cardinality({k \in 1..Len(scores) : RLt(Zero, scores[k][2])})
            > TOP_K_RECOMMENDATIONS

\* the distribution puts probability 1 on the emotion and 0 on its other keys
OneHotOn(d, e) ==
    /\ Get(d, e, Zero) = One
    /\ \A i \in 1..Len(d) : d[i][1] # e => d[i][2] = Zero

\* C4: for a distribution that is 1 on one emotion of the affinity table and
\* 0 elsewhere, the top deterministic recommendation is a style of highest
\* affinity for that emotion and its score is that affinity; for energetic
\* it is Hip-Hop with score 0.9.
C4_OneHotTopPick ==
    classical_recs # <<>> =>
        \A e \in EmotionNames :
            (HasKey(emotion_dance_matrix, e) /\ OneHotOn(emotions[1], e)) =>
                LET row == Get(emotion_dance_matrix, e, <<>>)
                    recs == classical_recs[1].recommendations
                IN /\ recs # <<>>
                   /\ recs[1].score = Get(row, recs[1].dance_style, Zero)
                   /\ \A k \in 1..Len(row) : RLe(row[k][2], recs[1].score)
                   /\ e = "energetic" =>
                        /\ recs[1].dance_style = "Hip-Hop"
                        /\ recs[1].score = R(9, 10)

\* energetic alone carries probability 1, a second key carries 0
C4_Witness ==
    /\ classical_recs # <<>>
    /\ Len(emotions[1]) = 2
    /\ OneHotOn(emotions[1], "energetic")
    /\ emotions[1][2][1] # "energetic"
    /\ classical_recs[1].recommendations[1].dance_style = "Hip-Hop"

\* C5: for a distribution over the emotion vocabulary, the superposition
\* state has norm 1 when the distribution has a positive total, and is the
\* zero vector, with no division, when every probability is 0.
C5_SuperpositionNormalized ==
    (quantum_state # <<>> /\ Range(Keys(emotions[1])) \subseteq EmotionNames) =>
        /\ Len(quantum_state[1]) = QUANTUM_DIMENSIONS
        /\ RLt(Zero, RSum(Values(emotions[1]))) => NormSq(quantum_state[1]) = One
        /\ AllZero(emotions[1]) => quantum_state[1] = ZeroVector

\* a distribution whose total is neither 0 nor 1 was normalised
C5_Witness ==
    /\ quantum_state # <<>>
    /\ RLt(One, RSum(Values(emotions[1])))
    /\ NormSq(quantum_state[1]) = One


\* C6: apply_entanglement multiplies each component by a product of
\* unit-modulus factors only, so every component's squared magnitude, and
\* with it the norm of the state, is the same after the transform as before.
C6_EntanglementPreservesMagnitudes ==
    entangled_state # <<>> =>
        LET op == entanglement_op(emotions[1])
        IN /\ \A j \in Dims :
                /\ AbsSq(op[j][j]) = One
                /\ AbsSq(entangled_state[1][j]) = AbsSq(quantum_state[1][j])
           /\ NormSq(entangled_state[1]) = NormSq(quantum_state[1])

\* the transform rotated a non-zero component
C6_Witness ==
    /\ entangled_state # <<>>
    /\ \E j \in Dims :
         /\ quantum_state[1][j] # CZero
         /\ entangled_state[1][j] # quantum_state[1][j]
         /\ entanglement_op(emotions[1])[j][j] # COne

\* C7: when some style has a non-zero unnormalised weight
\* projection * (1 + boost), the normalised dance weights over all
\* representable styles sum to 1; when every weight is 0 they are left
\* all-zero and nothing is divided.
C7_DanceWeightsNormalized ==
    quantum_weights # <<>> =>
        LET raw == RawDanceProbabilities(entangled_state[1], emotions[1])
        IN /\ Keys(quantum_weights[1]) = DANCE_STYLES
           /\ ~AllZero(raw) => RSum(Values(quantum_weights[1])) = One
           /\ AllZero(raw) => quantum_weights[1] = raw

\* the unnormalised weights of several styles are non-zero and do not sum to 1
C7_Witness ==
    /\ quantum_weights # <<>>
    /\ LET raw == RawDanceProbabilities(entangled_state[1], emotions[1])
       IN /\ Cardinality({i \in 1..Len(raw) : raw[i][2] # Zero}) > 1
          /\ RSum(Values(raw)) # One
          /\ quantum_weights[1] # raw

\* C8: the amplitude engine returns at most K recommendations, each with a
\* normalised weight above the threshold 0.1, in non-increasing order of
\* weight, and they are the top K of the styles whose weight exceeds the
\* threshold.
C8_QuantumTopK ==
    quantum_recs # <<>> =>
        LET recs == quantum_recs[1].recommendations
            above == SelectSeq(SortedDesc(quantum_weights[1]),
                               LAMBDA x : RLt(SUPERPOSITION_THRESHOLD, x[2]))
        IN /\ IsTopOfRanking(recs, quantum_weights[1], SUPERPOSITION_THRESHOLD)
           /\ Tuple([i \in 1..Len(recs) |-> <<recs[i].dance_style, recs[i].score>>])
                = TopK(above)

\* more than K styles exceed the threshold, so a qualifying style is cut
C8_Witness ==
    /\ quantum_recs # <<>>
    /\ Len(quantum_recs[1].recommendations) = TOP_K_RECOMMENDATIONS
    /\ Cardinality({i \in 1..Len(quantum_weights[1]) :
                      RLt(SUPERPOSITION_THRESHOLD, quantum_weights[1][i][2])})
         > TOP_K_RECOMMENDATIONS

C10_UnopenableFailsFirst ==
    /\ (video.exists /\ ~video.openable) =>
          /\ frames_read = 0
          /\ features = <<>>
          /\ open_attempts <= 1
          /\ pc \in {"idle", "extract_open", "except"}
          /\ (open_attempts = 1) =>
                exception = <<[type |-> "ValueError",
                               message |-> "Could not open video file"]>>
    /\ exception # <<>> => (~video.openable /\ open_attempts = 1)
    /\ (response # <<>> /\ exception # <<>>) =>
          /\ response[1].status = 500
          /\ response[1].body = [error |-> <<"Analysis failed: ", exception[1].message>>]

\* the request for an unopenable video was answered with the error
C10_Witness ==
    /\ video.exists
    /\ ~video.openable
    /\ pc = "idle"
    /\ exception # <<>>
    /\ response # <<>>
    /\ response[1].status = 500
    /\ open_attempts = 1
    /\ frames_read = 0


\* C11: when no motion sample was collected (fewer than two sampled frames,
\* no corner points, or no surviving point on any pair), extract_features
\* returns with avg_velocity, max_velocity, velocity_variance,
\* avg_acceleration, acceleration_variance and pose_diversity all 0.0 and
\* raises nothing.
C11_ZeroFeaturesWithoutMotion ==
    (entry = "extract_features" /\ pc = "returned") =>
        /\ exception = <<>>
        /\ features # <<>>
        /\ frame_count <= FRAME_SAMPLE_RATE => velocities = <<>>
        /\ velocities = <<>> =>
              /\ features[1].avg_velocity = Zero
              /\ features[1].max_velocity = Zero
              /\ features[1].velocity_variance = Zero
              /\ features[1].avg_acceleration = Zero
              /\ features[1].acceleration_variance = Zero
              /\ features[1].pose_diversity.exact = <<Zero>>

\* several pairs were sampled, optical flow ran, and no point survived
C11_Witness ==
    /\ entry = "extract_features"
    /\ pc = "returned"
    /\ frame_count > 2 * FRAME_SAMPLE_RATE
    /\ lk_input # <<>>
    /\ velocities = <<>>
    /\ features[1].max_velocity = Zero


\* C12: before normalisation the graceful value is 0.7 exactly when
\* avg_velocity > 0.3 and velocity_variance < 0.3, both strict, and 0.3
\* otherwise, the boundaries 0.3 included; avg_velocity 0.9 with
\* velocity_variance 0.05 gives 0.7.
C12_GracefulStep ==
    (entry = "analyze_emotions" /\ analysis # <<>>) =>
        LET v == features[1].avg_velocity
            var == features[1].velocity_variance
            raw == MovementRaw(features[1])
            graceful == Get(raw, "graceful", Zero)
        IN /\ graceful = R(7, 10) <=> (RLt(R(3, 10), v) /\ RLt(var, R(3, 10)))
           /\ graceful # R(7, 10) => graceful = R(3, 10)
           /\ (v = R(3, 10) \/ var = R(3, 10)) => graceful = R(3, 10)
           /\ (v = R(9, 10) /\ var = R(1, 20)) => graceful = R(7, 10)
           /\ Get(analysis[1].movement, "graceful", Zero)
                = RDiv(graceful, RSum(Values(raw)))

\* avg_velocity 0.9 with velocity_variance 0.05 was analysed
C12_Witness ==
    /\ entry = "analyze_emotions"
    /\ analysis # <<>>
    /\ features[1].avg_velocity = R(9, 10)
    /\ features[1].velocity_variance = R(1, 20)
    /\ Get(analysis[1].movement, "graceful", Zero)
         = RDiv(R(7, 10), RSum(Values(MovementRaw(features[1]))))


\* C13: for every list of non-negative velocity samples, the empty one
\* included, the aggregated record has 0 <= avg_velocity <= max_velocity <= 1
\* after the division by max(avg_velocity, max_velocity, 1.0), and the
\* divisor is never 0.
C13_VelocitiesInUnitInterval ==
    (entry = "extract_features" /\ pc = "returned") =>
        LET stats == VelocityStatistics(velocities)
            divisor == RMax(RMax(stats.avg_velocity, stats.max_velocity), One)
        IN /\ \A i \in 1..Len(velocities) : RLe(Zero, velocities[i])
           /\ RLe(One, divisor)
           /\ RLe(Zero, features[1].avg_velocity)
           /\ RLe(features[1].avg_velocity, features[1].max_velocity)
           /\ RLe(features[1].max_velocity, One)
           /\ RMul(features[1].avg_velocity, divisor) = stats.avg_velocity
           /\ RMul(features[1].max_velocity, divisor) = stats.max_velocity

\* the largest sample exceeded 1 and the samples differed
C13_Witness ==
    /\ entry = "extract_features"
    /\ pc = "returned"
    /\ \E i \in 1..Len(velocities) : RLt(One, velocities[i])
    /\ RLt(Zero, features[1].avg_velocity)
    /\ RLt(features[1].avg_velocity, features[1].max_velocity)
    /\ features[1].max_velocity = One


\* a dict of non-negative values whose sum is at most 1
IsSubDistribution(d) ==
    /\ \A i \in 1..Len(d) : RLe(Zero, d[i][2])
    /\ RLe(RSum(Values(d)), One)

\* every value of a dict lies in [0, 1]
InUnitInterval(d) == \A i \in 1..Len(d) : RLe(Zero, d[i][2]) /\ RLe(d[i][2], One)

\* C14: for a distribution of non-negative values summing to at most 1, every
\* classical score and every quantum score lies in [0, 1], and the classical
\* confidence min(1.0, score) equals the score.
C14_ScoresInUnitInterval ==
    (entry = "recommend" /\ IsSubDistribution(emotions[1])) =>
        /\ classical_recs # <<>> =>
              /\ InUnitInterval(dance_scores(emotions[1]))
              /\ \A i \in 1..Len(classical_recs[1].recommendations) :
                    LET r == classical_recs[1].recommendations[i]
                    IN /\ RLe(Zero, r.score) /\ RLe(r.score, One)
                       /\ r.confidence = r.score
        /\ quantum_recs # <<>> =>
              /\ InUnitInterval(quantum_weights[1])
              /\ \A i \in 1..Len(quantum_recs[1].recommendations) :
                    LET r == quantum_recs[1].recommendations[i]
                    IN RLe(Zero, r.score) /\ RLe(r.score, One)

\* two emotions of total mass 1 share a style, both engines returned
\* recommendations, and a classical score reaches the affinity bound
C14_Witness ==
    /\ entry = "recommend"
    /\ pc = "returned"
    /\ Len(emotions[1]) = 2
    /\ RSum(Values(emotions[1])) = One
    /\ \A i \in 1..2 : RLt(Zero, emotions[1][i][2])
    /\ \E i \in 1..Len(classical_recs[1].recommendations) :
          classical_recs[1].recommendations[i].score = R(9, 10)
    /\ quantum_recs[1].recommendations # <<>>


\* the steps of the two recommend() calls
EngineSteps == {"classical", "superposition", "entangle", "measure"}

\* one step of either engine leaves the distribution and the other engine's
\* state alone, and returns what it returns without the other engine
EnginesIndependent ==
    /\ pc \in EngineSteps => emotions' = emotions
    /\ pc = "classical" =>
          /\ UNCHANGED <<quantum_state, entangled_state, quantum_weights,
                         quantum_recs, rng>>
          /\ first # <<>> => classical_recs' = <<first[1].classical_recs>>
    /\ pc \in EngineSteps \ {"classical"} => UNCHANGED classical_recs
    /\ (entry = "recommend" /\ pc = "measure") =>
          \E superposition \in {create_superposition_state(emotions[1], rng_at_entry)} :
          \E entangled \in {apply_entanglement(superposition.state, emotions[1])} :
          \E measured \in {quantum_measurement(entangled, emotions[1])} :
             quantum_recs' = <<[recommendations |-> measured,
                                method |-> "quantum",
                                quantum_properties |->
                                    quantum_properties(superposition.state)]>>

\* C15: neither recommend() modifies the distribution it is given (the
\* tables and basis vectors are constants of the recommenders), and the
\* result of each engine is the same whether the other engine ran before it,
\* after it, or not at all.
C15_EnginesDoNotInterfere == [][EnginesIndependent]_vars

\* the deterministic engine has just returned for the second time, after the
\* amplitude engine ran, on a distribution with an entry of probability 0
C15_Witness ==
    /\ entry = "recommend"
    /\ pc = "superposition"
    /\ first # <<>>
    /\ first[1].quantum_recs.recommendations # <<>>
    /\ classical_recs[1].recommendations # <<>>
    /\ \E i \in 1..Len(emotions[1]) : emotions[1][i][2] = Zero


\* the entries of a dict whose emotion has a row in the table
WithRow(table, d) == SelectSeq(d, LAMBDA x : HasKey(table, x[1]))

\* no emotion of the dict has an entry for the dance in the table
NoEntryFor(table, d, dance) ==
    \A i \in 1..Len(d) : ~HasKey(Get(table, d[i][1], <<>>), dance)

\* C16: an emotion without a row in the affinity or correlation table, and
\* an (emotion, dance) pair without an entry, add 0 to every score, rotate no
\* phase and add 0 to every boost, and raise no error; a distribution with
\* such an emotion added has the deterministic scores it has without it.
C16_MissingEntriesContributeNothing ==
    entry = "recommend" =>
        LET d == emotions[1]
            affine == WithRow(emotion_dance_matrix, d)
            correlated == WithRow(entanglement_matrix, d)
        IN /\ exception = <<>>
           /\ classical_recs # <<>> =>
                 /\ \A i \in 1..Len(classical_recs[1].recommendations) :
                       LET r == classical_recs[1].recommendations[i]
                       IN /\ r.score = Get(dance_scores(affine), r.dance_style, <<>>)
                          /\ ~NoEntryFor(emotion_dance_matrix, d, r.dance_style)
                 /\ Len(classical_recs[1].recommendations)
                      = Len(ClassicalRecommendations(affine))
           /\ pc \in {"measure", "returned"} =>
                 /\ entangled_state[1] = apply_entanglement(quantum_state[1], correlated)
                 /\ \A j \in 1..Len(DANCE_STYLES) :
                       NoEntryFor(entanglement_matrix, d, DANCE_STYLES[j]) =>
                           entangled_state[1][j] = quantum_state[1][j]
           /\ pc = "returned" =>
                 quantum_weights[1] = dance_probabilities(entangled_state[1], correlated)

\* the unlisted emotion carries positive probability next to happy, and both
\* engines returned recommendations
C16_Witness ==
    /\ entry = "recommend"
    /\ pc = "returned"
    /\ Len(emotions[1]) = 2
    /\ RLt(Zero, Get(emotions[1], "happy", Zero))
    /\ RLt(Zero, Get(emotions[1], UnlistedEmotion, Zero))
    /\ classical_recs[1].recommendations # <<>>
    /\ quantum_recs[1].recommendations # <<>>


\* the indices 0, 5, 10, ... of the first min(10, ceil(n / 5)) sampled frames
\* of a sequence of n frames
FirstSampledIndices(n) ==
    LET sampled == (n + FRAME_SAMPLE_RATE - 1) \div FRAME_SAMPLE_RATE
        kept == IF sampled < MAX_STORED_FRAMES THEN sampled ELSE MAX_STORED_FRAMES
    IN Tuple([i \in 1..kept |-> FRAME_SAMPLE_RATE * (i - 1)])

\* C17: after n frames were read the retained frames are the frames of
\* index 0, 5, 10, ... in order, cut to the first 10, so their number is
\* min(10, ceil(n / 5)) and never exceeds 10, a retained frame is never
\* replaced, and the returned sample_frames is that list.
C17_SampleFramesFirstTen ==
    entry = "extract_features" =>
        /\ Len(stored_frames) <= MAX_STORED_FRAMES
        /\ stored_frames = FirstSampledIndices(frame_count)
        /\ pc = "returned" => features[1].sample_frames = stored_frames

\* an eleventh sampled frame was read and not retained
C17_Witness ==
    /\ entry = "extract_features"
    /\ pc = "returned"
    /\ frame_count > FRAME_SAMPLE_RATE * MAX_STORED_FRAMES
    /\ Len(features[1].sample_frames) = MAX_STORED_FRAMES
    /\ features[1].sample_frames[MAX_STORED_FRAMES]
         = FRAME_SAMPLE_RATE * (MAX_STORED_FRAMES - 1)


\* a step that reads a sampled frame and runs calcOpticalFlowPyrLK on the
\* pair (previous sampled frame, this frame)
TrackingStep ==
    /\ entry = "extract_features"
    /\ pc = "loop"
    /\ IsSampled(frame_count)
    /\ frame_count' = frame_count + 1
    /\ lk_input' # <<>>

\* C18: after every sampled pair on which optical flow ran, the tracked point
\* set kept for the next iteration is the set of surviving new locations, on
\* the new frame, also when none survived; so the points handed to optical
\* flow always lie on the previous frame of the pair (survivors located on it
\* or corners re-detected on it), never on an older frame.
C18_TrackedPointsAreSurvivors ==
    [][TrackingStep =>
          /\ lk_input'[1].points.frame = lk_input'[1].prev_frame
          /\ prev_points' # <<>>
          /\ prev_points'[1].frame = frame_count]_vars


\* C19: the facial distribution is the fixed one exactly when some sample
\* frame holds a face and the uniform 1/7 otherwise; without sample frames
\* the face check is never called, and no frame after the first frame with a
\* face is examined; the keys are the facial vocabulary and the values sum
\* to 1.
C19_FacialDistribution ==
    (entry = "analyze_emotions" /\ analysis # <<>>) =>
        LET frames == features[1].sample_frames
            faces == {i \in 1..Len(frames) : frames[i]}
            facial == analysis[1].facial
        IN /\ facial = FaceDetectedEmotions <=> faces # {}
           /\ faces = {} => /\ facial = UniformFacial
                            /\ \A i \in 1..Len(facial) : facial[i][2] = R(1, 7)
                            /\ face_checks = Len(frames)
           /\ frames = <<>> => face_checks = 0
           /\ faces # {} => /\ face_checks \in faces
                            /\ \A i \in faces : face_checks <= i
           /\ Len(facial) = Len(FACIAL_EMOTIONS)
           /\ Range(Keys(facial)) = Range(FACIAL_EMOTIONS)
           /\ RSum(Values(facial)) = One

\* the first of several sample frames holds a face and the later frames were
\* not examined
C19_Witness ==
    /\ entry = "analyze_emotions"
    /\ analysis # <<>>
    /\ Len(features[1].sample_frames) > 1
    /\ features[1].sample_frames[1]
    /\ face_checks = 1
    /\ analysis[1].facial = FaceDetectedEmotions


\* C20: for every kept style the reasoning of the deterministic engine names
\* an emotion whose contribution probability * affinity is the largest among
\* the emotions with an entry for the style, and among tied emotions the one
\* named follows one fixed order: it is the emotion named for the dict that
\* holds the same probabilities inserted in the opposite order.
C20_ReasoningNamesLargestContribution ==
    (entry = "recommend" /\ classical_recs # <<>>) =>
        \A i \in 1..Len(classical_recs[1].recommendations) :
            LET r == classical_recs[1].recommendations[i]
                named == r.reasoning.top_emotion
                contributions == Contributions(emotion_dance_matrix, emotions[1],
                                               r.dance_style)
            IN /\ \E k \in 1..Len(contributions) :
                     /\ contributions[k][1] = named
                     /\ \A j \in 1..Len(contributions) :
                           RLe(contributions[j][2], contributions[k][2])
               /\ named = generate_reasoning(r.dance_style,
                                             Reverse(emotions[1])).top_emotion


\* a step that starts an analyze request
RequestStarts == entry = "analyze_video" /\ pc = "idle" /\ requests' = requests + 1

\* C21: the analyze handler looks at the cache first: once the result of a
\* video_id is stored, every later request answers 200 with the stored
\* record, without running the pipeline and without looking at the file, and
\* the stored entry is never removed or replaced.
C21_CacheAnswersFirst ==
    [][HasKey(video_cache, VideoId) =>
          /\ video_cache' = video_cache
          /\ RequestStarts =>
                /\ response' = <<Response(200, Get(video_cache, VideoId, <<>>))>>
                /\ pc' = "idle"
                /\ open_attempts' = 0
                /\ frames_read' = 0]_vars

\* the file was deleted after a successful analysis and a later request was
\* answered from the cache
C21_Witness ==
    /\ entry = "analyze_video"
    /\ pc = "idle"
    /\ requests > 1
    /\ ~video.exists
    /\ HasKey(video_cache, VideoId)
    /\ response # <<>>
    /\ response[1].status = 200
    /\ response[1].body = Get(video_cache, VideoId, <<>>)
    /\ open_attempts = 0


\* a step on which a request returns an error response
RequestFails ==
    /\ entry = "analyze_video"
    /\ RequestStarts \/ pc = "except"
    /\ pc' = "idle"
    /\ response' # <<>>
    /\ response'[1].status \in {404, 500}

\* C22: a request that ends in 404 or 500 leaves the cache as it was, so the
\* cache holds only records of completed analyses, and a request that comes
\* after a failed one, with the file present, runs the pipeline again.
C22_ErrorsAreNotCached ==
    [][/\ RequestFails => video_cache' = video_cache
       /\ HasKey(video_cache', VideoId) =>
             /\ pc' = "idle"
             /\ response'[1].status = 200
             /\ requests' = 1 => Get(video_cache', VideoId, <<>>) = response'[1].body
             /\ DOMAIN Get(video_cache', VideoId, <<>>) =
                  {"video_id", "emotions", "classical_recommendations",
                   "quantum_recommendations", "comparison"}
       /\ (RequestStarts /\ response # <<>> /\ response[1].status \in {404, 500}
             /\ video.exists) =>
             /\ pc' = "extract_open"
             /\ response' = <<>>]_vars

\* the second request ran the pipeline again after the first one failed with
\* 500, failed as well, and nothing was cached
C22_Witness ==
    /\ entry = "analyze_video"
    /\ pc = "idle"
    /\ requests = 2
    /\ open_attempts = 1
    /\ response # <<>>
    /\ response[1].status = 500
    /\ video_cache = <<>>


\* C23: when two analyze requests for one uncached video_id interleave, all
\* successful responses for the video_id, of these requests and of later
\* ones, carry the same result record.
C23_ConcurrentResponsesAgree ==
    entry = "concurrent_requests" =>
        \A h1 \in HandlerIds, h2 \in HandlerIds :
            LET r1 == handlers.calls[h1].response
                r2 == handlers.calls[h2].response
            IN (r1 # <<>> /\ r2 # <<>> /\ r1[1].status = 200 /\ r2[1].status = 200) =>
                  r1[1].body = r2[1].body


\* the emotions whose basis index lies beyond the last dance style
BeyondDances ==
    {AllEmotions[i] : i \in (Len(DANCE_STYLES) + 1)..Len(AllEmotions)}

\* C24: dance style i and emotion i of the vocabulary (facial, then
\* movement) share basis vector i, so style i has a non-zero weight only if
\* emotion i has positive probability; graceful, playful and melancholic
\* project on no style, so a distribution carried by them alone yields no
\* recommendation, and {energetic: 1.0} yields Tap alone, with weight 1.
C24_SharedBasisIndex ==
    (entry = "recommend" /\ pc = "returned") =>
        LET d == emotions[1]
            recs == quantum_recs[1].recommendations
        IN /\ BeyondDances = {"graceful", "playful", "melancholic"}
           /\ \A i \in 1..Len(quantum_weights[1]) :
                 quantum_weights[1][i][2] # Zero =>
                    /\ quantum_weights[1][i][1] = DANCE_STYLES[i]
                    /\ RLt(Zero, Get(d, AllEmotions[i], Zero))
           /\ (\A k \in 1..Len(d) : d[k][2] # Zero => d[k][1] \in BeyondDances) =>
                 recs = <<>>
           /\ d = << <<"energetic", One>> >> =>
                 /\ Len(recs) = 1
                 /\ recs[1].dance_style = "Tap"
                 /\ recs[1].score = One

\* playful and melancholic carry the whole probability and nothing is
\* recommended
C24_Witness ==
    /\ entry = "recommend"
    /\ pc = "returned"
    /\ Len(emotions[1]) = 2
    /\ \A k \in 1..2 : /\ RLt(Zero, emotions[1][k][2])
                       /\ emotions[1][k][1] \in {"playful", "melancholic"}
    /\ quantum_state[1] # ZeroVector
    /\ quantum_recs[1].recommendations = <<>>


====
